---- MODULE Spec2Model ----
(***************************************************************************)
(* A state-machine model of the velld backup engine: CreateBackup with     *)
(* its S3 mirror step, the retention GC, the schedule operations and the   *)
(* cron firings of BackupService.                                          *)
(*                                                                         *)
(* Time is a discrete clock.  A dump file path is the triple               *)
(* <<folder, database, timestamp>>, an S3 object key is the sequence of    *)
(* its "/"-separated parts.  Every call to an external collaborator (the   *)
(* dump tool, the file system, S3, the record store) takes its outcome     *)
(* from a small set, so that each error branch of the code is taken.       *)
(***************************************************************************)
EXTENDS Integers, Sequences, FiniteSets, TLC

\* ------------------------------------------------------------------ bounds
MaxClock == 2
MaxBackups == 2
MaxFirings == 2
MaxCalls == 2
MaxSchedules == 2
MaxRacingFirings == 1
MaxEntries == 2
DayLen == 1

\* --------------------------------------------------------------- null values
\* A nil *time.Time (next_run_time, last_backup_time, completed_time).
NoTime == -1
\* A nil schedule_id of a backup record.
NoSchedule == 0
\* A nil or empty s3_object_key.
NoKey == << >>
\* The empty path an operation returns with an error.
NoPath == << >>

VARIABLES
    clock,          \* time.Now()
    connections,    \* connections table: id -> StoredConnection
    settings,       \* the owner's UserSettings (S3 part)
    files,          \* local dump files that exist
    objects,        \* object keys present in the S3 bucket
    backups,        \* backups table: id -> Backup
    nextBackupId,   \* uuid.New() for backups
    schedules,      \* backup_schedules table: id -> BackupSchedule
    nextScheduleId, \* uuid.New() for schedules
    cronJobs,       \* cronManager's entries: EntryID -> job
    cronEntries,    \* BackupService.cronEntries: schedule id -> EntryID
    nextEntryId,    \* the cron engine's next EntryID
    started,        \* NewBackupService has returned (cronManager.Start())
    firings,        \* running executeCronBackup goroutines, by slot
    calls,          \* schedule requests in progress, by slot
    notifications,  \* notifications table
    ret             \* what the operation of the last step returned

envVars == << connections, settings >>
storeVars == << files, objects, backups, nextBackupId >>
tableVars == << schedules, nextScheduleId >>
cronVars == << cronJobs, cronEntries, nextEntryId, started >>
schedVars == << schedules, nextScheduleId, cronJobs, cronEntries, nextEntryId, started,
                firings, calls, notifications >>
vars == << clock, connections, settings, files, objects, backups, nextBackupId,
           schedules, nextScheduleId, cronJobs, cronEntries, nextEntryId, started,
           firings, calls, notifications, ret >>

\* ------------------------------------------------------------------ inputs
ConnectionIds == {"c1", "c2"}

\* The credential vault: a ciphertext is its plaintext under a seal, and
\* Decrypt takes the seal off; an empty column holds no ciphertext.
NoCipher == << >>

Encrypt(plaintext) == << "enc", plaintext >>

Decrypt(ciphertext) == ciphertext[2]

\* c1 dumps its own database, c2 fans out over its selected databases; the
\* password column holds a ciphertext, the SSH columns are empty.
InitConnections ==
    [c \in ConnectionIds |->
        [name |-> IF c = "c1" THEN <<"p", "g">> ELSE <<"m", " ">>,
         database |-> "shop",
         selected |-> IF c = "c1" THEN << >> ELSE <<"a", "b">>,
         s3cleanup |-> TRUE,
         type |-> IF c = "c1" THEN "postgresql" ELSE "mysql",
         ssh |-> FALSE,
         password |-> Encrypt("s"),
         ssh_password |-> NoCipher,
         ssh_private_key |-> NoCipher]]

\* UserSettings rows: every combination of the S3 switch and the purge flag,
\* with at most one of the four required fields empty.
SettingsInputs ==
    {s \in [S3Enabled : BOOLEAN, S3Endpoint : {"", "e"}, S3Bucket : {"", "b"},
            S3AccessKey : {"", "k"}, S3SecretKey : {"", "s"},
            S3PathPrefix : {"", "p"}, S3PurgeLocal : BOOLEAN] :
        LET empty == {f \in {"S3Endpoint", "S3Bucket", "S3AccessKey", "S3SecretKey"} :
                            s[f] = ""}
        IN  /\ Cardinality(empty) <= 1
            /\ (~s.S3Enabled => empty = {})
            /\ (s.S3PathPrefix = "p" => s.S3Enabled /\ empty = {})}

\* Outcomes of the steps of one dump: the command builder and the dump tool,
\* os.Stat, the S3 step, os.Remove and the record insert.
DumpOutcomes ==
    {o \in [cmd : {"ok", "nil", "dump_err", "stat_err"},
            s3 : {"ok", "settings_err", "decrypt_err", "client_err", "put_err"},
            remove : {"ok", "err"}, save : {"ok", "err"}, size : {0, 1}] :
        /\ (o.cmd # "ok" => o.s3 = "ok" /\ o.save = "ok")
        /\ (o.s3 # "ok" \/ o.cmd # "ok" => o.remove = "ok")
        /\ (o.save # "ok" \/ o.cmd # "ok" => o.size = 0)}

OkOutcome == [cmd |-> "ok", s3 |-> "ok", remove |-> "ok", save |-> "ok", size |-> 1]

\* Outcomes of the steps before the first dump.
PreOutcomes == {"ok", "conn_err", "tool_missing", "tunnel_err", "mkdir_err"}

\* ------------------------------------------------------------------ helpers
\* common.SanitizeConnectionName: every character outside [A-Za-z0-9._-]
\* becomes "_".
SafeChars == {"p", "g", "m", "a", "b", "_", "-", "."}

SanitizeConnectionName(name) ==
    [i \in 1..Len(name) |-> IF name[i] \in SafeChars THEN name[i] ELSE "_"]

\* filepath.Join(backupDir, folder, fmt.Sprintf("%s_%s.sql", dbName, timestamp))
BackupPath(connectionName, dbName, timestamp) ==
    << SanitizeConnectionName(connectionName), dbName, timestamp >>

\* filepath.Base(path)
Base(path) == << path[2], path[3] >>

getObjectKeyWithPath(prefix, fileName, subfolder) ==
    (IF prefix # "" THEN << prefix >> ELSE << >>)
        \o (IF subfolder # << >> THEN << subfolder >> ELSE << >>)
        \o << fileName >>

\* The mutable stores a call works on.
World == [files |-> files, objects |-> objects, backups |-> backups,
          nextBackupId |-> nextBackupId]

SetWorld(w) ==
    /\ files' = w.files
    /\ objects' = w.objects
    /\ backups' = w.backups
    /\ nextBackupId' = w.nextBackupId

NoRet == [op |-> "none"]

\* ----------------------------------------------------- S3 step of a dump
\* The result of uploadToS3IfEnabled: the error, the key set on the backup,
\* whether PutObject acknowledged, whether os.Remove was called and whether it
\* removed the file.
S3Result(err, key, acked, rmTried, removed) ==
    [err |-> err, key |-> key, acked |-> acked, rmTried |-> rmTried, removed |-> removed]

S3Configured(st) ==
    /\ st.S3Enabled
    /\ st.S3Endpoint # ""
    /\ st.S3Bucket # ""
    /\ st.S3AccessKey # ""
    /\ st.S3SecretKey # ""

\* A faulty purge step: os.Remove runs whatever the upload returned.
purgeLocalAlways(st, acked, o) ==
    [rmTried |-> st.S3PurgeLocal, removed |-> st.S3PurgeLocal /\ o.remove = "ok"]

\* A faulty purge step: os.Remove runs whenever S3 is switched on.
purgeLocalWhenEnabled(st, acked, o) ==
    [rmTried |-> st.S3Enabled /\ st.S3PurgeLocal,
     removed |-> st.S3Enabled /\ st.S3PurgeLocal /\ o.remove = "ok"]

\* The purge at the end of uploadToS3IfEnabled: reached only when
\* UploadFileWithPath returned no error (acked); a failing os.Remove is a
\* warning.
purgeLocal(st, acked, o) ==
    [rmTried |-> acked /\ st.S3PurgeLocal,
     removed |-> acked /\ st.S3PurgeLocal /\ o.remove = "ok"]

\* Whether uploadToS3IfEnabled gets as far as a successful PutObject.
uploadAcked(localExists, st, o) ==
    /\ o.s3 = "ok"
    /\ S3Configured(st)
    /\ localExists

uploadToS3IfEnabled(path, localExists, connectionName, st, o) ==
    LET acked == uploadAcked(localExists, st, o)
        err == ~acked /\ (o.s3 = "settings_err" \/ st.S3Enabled)
        key == IF acked
               THEN getObjectKeyWithPath(st.S3PathPrefix, Base(path),
                                         SanitizeConnectionName(connectionName))
               ELSE NoKey
        purge == purgeLocal(st, acked, o)
    IN  S3Result(err, key, acked, purge.rmTried, purge.removed)

\* A faulty insert step: a dump whose S3 step failed is not saved.
saveUnlessS3Failed(s3err, o) == ~s3err /\ o.save = "ok"

\* Whether backupRepo.CreateBackup runs and succeeds after the S3 step: the
\* error of uploadToS3IfEnabled is only logged.
saveAfterS3(s3err, o) == o.save = "ok"

\* ------------------------------------------------------------ one dump
\* The dump -> stat -> S3 -> insert sequence shared by the single-database run
\* and by each sub-dump of a multi-database run.  Returns the stores after it,
\* and what happened: sub.saved says whether a record was inserted.
dumpOne(w, st, conn, cid, dbName, now, o) ==
    LET path == BackupPath(conn.name, dbName, now)
        id == w.nextBackupId
        none == [db |-> dbName, path |-> path, cmd |-> o.cmd, dumped |-> FALSE,
                 s3err |-> FALSE,
                 acked |-> FALSE, rmTried |-> FALSE, removed |-> FALSE,
                 insert |-> "none", saved |-> FALSE, id |-> id, key |-> NoKey]
        w1 == [w EXCEPT !.nextBackupId = @ + 1]
    IN  IF o.cmd \in {"nil", "dump_err"} THEN [w |-> w1, sub |-> none]
        ELSE
        LET written == [w1 EXCEPT !.files = @ \cup {path}]
        IN  IF o.cmd = "stat_err"
            THEN [w |-> written, sub |-> none]
            ELSE
            LET s3 == uploadToS3IfEnabled(path, TRUE, conn.name, st, o)
                rec == [id |-> id, connection_id |-> cid, schedule_id |-> NoSchedule,
                        status |-> "completed", path |-> path, s3_object_key |-> s3.key,
                        size |-> o.size, started_time |-> now, completed_time |-> now,
                        created_at |-> now]
                stored == [written EXCEPT
                              !.files = IF s3.removed THEN @ \ {path} ELSE @,
                              !.objects = IF s3.acked THEN @ \cup {s3.key} ELSE @]
                saved == saveAfterS3(s3.err, o)
                sub == [db |-> dbName, path |-> path, cmd |-> o.cmd, dumped |-> TRUE,
                        s3err |-> s3.err,
                        acked |-> s3.acked, rmTried |-> s3.rmTried,
                        removed |-> s3.removed, insert |-> o.save, saved |-> saved,
                        id |-> id, key |-> s3.key]
            IN  IF ~saved THEN [w |-> stored, sub |-> sub]
                ELSE [w |-> [stored EXCEPT !.backups = (id :> rec) @@ @], sub |-> sub]

\* setupSSHTunnelIfNeeded: a tunnel handle iff the connection uses SSH and the
\* tunnel could be opened; no handle comes with an error.
setupSSHTunnelIfNeeded(conn, o) ==
    IF ~conn.ssh THEN [tunnel |-> FALSE, err |-> FALSE]
    ELSE IF o = "ok" THEN [tunnel |-> TRUE, err |-> FALSE]
    ELSE [tunnel |-> FALSE, err |-> TRUE]

\* A faulty release: the tunnel is stopped only when the call succeeds.
stopOnSuccess(opened, err) == IF err THEN 0 ELSE opened

\* defer tunnel.Stop(), registered as soon as the tunnel is there: the number
\* of tunnels stopped when the call returns.
stoppedAtReturn(opened, err) == opened

\* The tunnels of one call: how many it opened and how many it stopped.
Tunnels(opened, err) == [opened |-> opened, stopped |-> stoppedAtReturn(opened, err)]

\* The tunnels of a backup call that met outcome pre before its first dump and
\* returned err: the tunnel is set up after the tools are verified and before
\* the folder is made.
backupTunnels(conn, pre, err) ==
    LET t == setupSSHTunnelIfNeeded(conn, IF pre = "tunnel_err" THEN "err" ELSE "ok")
    IN  Tunnels(IF pre \in {"ok", "mkdir_err"} /\ t.tunnel THEN 1 ELSE 0, err)

\* createSingleDatabaseBackup: returns an error unless the one dump was saved.
createSingleDatabaseBackup(w, st, conn, cid, now, pre, os) ==
    IF pre # "ok"
    THEN [w |-> w, err |-> TRUE, id |-> 0, subs |-> << >>,
          tunnels |-> backupTunnels(conn, pre, TRUE)]
    ELSE
    LET r == dumpOne(w, st, conn, cid, conn.database, now, os[1])
    IN  [w |-> r.w, err |-> ~r.sub.saved, id |-> IF r.sub.saved THEN r.sub.id ELSE 0,
         subs |-> << r.sub >>, tunnels |-> backupTunnels(conn, pre, ~r.sub.saved)]

\* The loop of createMultiDatabaseBackup over the first n selected databases.
RECURSIVE multiLoop(_, _, _, _, _, _, _)
multiLoop(w, st, conn, cid, now, os, n) ==
    IF n = 0 THEN [w |-> w, subs |-> << >>]
    ELSE
    LET before == multiLoop(w, st, conn, cid, now, os, n - 1)
        r == dumpOne(before.w, st, conn, cid, conn.selected[n], now, os[n])
    IN  [w |-> r.w, subs |-> Append(before.subs, r.sub)]

\* A faulty choice: the backup saved last is returned.
lastSuccessful(ok) == CHOOSE i \in ok : \A j \in ok : j <= i

\* successfulBackups[0]: the sub-dump saved first, in list order.
firstSuccessful(ok) == CHOOSE i \in ok : \A j \in ok : i <= j

\* createMultiDatabaseBackup: fails only if no sub-dump was saved, else returns
\* successfulBackups[0].
createMultiDatabaseBackup(w, st, conn, cid, now, pre, os) ==
    IF pre # "ok"
    THEN [w |-> w, err |-> TRUE, id |-> 0, subs |-> << >>,
          tunnels |-> backupTunnels(conn, pre, TRUE)]
    ELSE
    LET r == multiLoop(w, st, conn, cid, now, os, Len(conn.selected))
        ok == {i \in 1..Len(r.subs) : r.subs[i].saved}
        first == firstSuccessful(ok)
    IN  [w |-> r.w, err |-> ok = {}, id |-> IF ok = {} THEN 0 ELSE r.subs[first].id,
         subs |-> r.subs, tunnels |-> backupTunnels(conn, pre, ok = {})]

\* BackupService.CreateBackup as a function of the stores and the outcomes.
CreateBackupCall(w, st, conns, cid, now, pre, os) ==
    IF pre = "conn_err" \/ cid \notin DOMAIN conns
    THEN [w |-> w, err |-> TRUE, id |-> 0, subs |-> << >>, tunnels |-> Tunnels(0, TRUE)]
    ELSE IF Len(conns[cid].selected) > 0
    THEN createMultiDatabaseBackup(w, st, conns[cid], cid, now, pre, os)
    ELSE createSingleDatabaseBackup(w, st, conns[cid], cid, now, pre, os)

\* The number of dumps a call on connection cid runs.
DumpCount(cid) ==
    IF cid \in DOMAIN connections /\ Len(connections[cid].selected) > 0
    THEN Len(connections[cid].selected) ELSE 1

\* The sequences of per-dump outcomes a call on connection cid may meet.
OutcomeSeqs(cid, pre) ==
    LET n == DumpCount(cid)
    IN  IF pre = "ok" THEN [1..n -> DumpOutcomes] ELSE {[i \in 1..n |-> OkOutcome]}

\* ------------------------------------------------------------ retention GC
\* Outcomes of one cleanupOldBackups run: the steps before the loop, and for
\* each expired backup the S3 delete, the os.Remove and the record delete.
OkGcOutcome == [s3del |-> "ok", remove |-> "ok", del |-> "ok"]

GcItemOutcomes ==
    {OkGcOutcome, [OkGcOutcome EXCEPT !.s3del = "err"],
     [OkGcOutcome EXCEPT !.remove = "err"], [OkGcOutcome EXCEPT !.del = "err"]}

GcPreOutcomes ==
    {"ok", "fetch_err", "conn_err", "settings_err", "decrypt_err", "client_err"}

\* A faulty query: the status of the record is not looked at.
GetBackupsOlderThanAnyStatus(table, connectionID, cutoffTime) ==
    {id \in DOMAIN table :
        /\ table[id].connection_id = connectionID
        /\ table[id].created_at < cutoffTime}

\* BackupRepository.GetBackupsOlderThan
GetBackupsOlderThan(table, connectionID, cutoffTime) ==
    {id \in DOMAIN table :
        /\ table[id].connection_id = connectionID
        /\ table[id].created_at < cutoffTime
        /\ table[id].status = "completed"}

\* A faulty test: the connection's s3_cleanup_on_retention is not looked at.
deleteFromS3IgnoringFlag(b, s3Storage, s3cleanup) ==
    b.s3_object_key # NoKey /\ s3Storage

\* Whether the cleanup loop calls s3Storage.DeleteFile for the backup.
deleteFromS3(b, s3Storage, s3cleanup) ==
    b.s3_object_key # NoKey /\ s3Storage /\ s3cleanup

\* The body of the cleanup loop for one expired backup.
cleanupOne(w, id, s3Storage, s3cleanup, o) ==
    LET b == w.backups[id]
        delS3 == deleteFromS3(b, s3Storage, s3cleanup)
        w1 == IF delS3 /\ o.s3del = "ok"
              THEN [w EXCEPT !.objects = @ \ {b.s3_object_key}] ELSE w
        w2 == IF b.path \in w1.files /\ o.remove = "ok"
              THEN [w1 EXCEPT !.files = @ \ {b.path}] ELSE w1
    IN  IF o.del = "ok"
        THEN [w2 EXCEPT !.backups = [i \in DOMAIN @ \ {id} |-> @[i]]]
        ELSE w2

RECURSIVE cleanupLoop(_, _, _, _, _)
cleanupLoop(w, ids, s3Storage, s3cleanup, os) ==
    IF ids = {} THEN w
    ELSE
    LET id == CHOOSE i \in ids : \A j \in ids : i <= j
    IN  cleanupLoop(cleanupOne(w, id, s3Storage, s3cleanup, os[id]),
                    ids \ {id}, s3Storage, s3cleanup, os)

\* BackupService.cleanupOldBackups.  Returns the stores after it and, for each
\* backup the loop went through, whether DeleteFile was called and the outcomes
\* its steps met.
cleanupOldBackups(w, st, conns, connectionID, retentionDays, now, pre, os) ==
    LET oldBackups == GetBackupsOlderThan(w.backups, connectionID,
                                          now - retentionDays * DayLen)
        s3Storage == /\ pre \notin {"settings_err", "decrypt_err", "client_err"}
                     /\ S3Configured(st)
        none == [w |-> w, client |-> FALSE, items |-> {}]
    IN  IF pre = "fetch_err" \/ oldBackups = {} THEN none
        ELSE IF pre = "conn_err" \/ connectionID \notin DOMAIN conns THEN none
        ELSE [w |-> cleanupLoop(w, oldBackups, s3Storage,
                                conns[connectionID].s3cleanup, os),
              client |-> s3Storage,
              items |-> {[id |-> id, path |-> w.backups[id].path,
                          key |-> w.backups[id].s3_object_key,
                          s3del |-> deleteFromS3(w.backups[id], s3Storage,
                                                 conns[connectionID].s3cleanup),
                          o |-> os[id]] : id \in oldBackups}]

\* ------------------------------------------------------------ schedules
\* Cron expressions are named by their period in clock ticks.
CronExprs == {"every1", "every2"}
BadCron == "bad"

Period(expr) == IF expr = "every1" THEN 1 ELSE 2

\* parser.Parse(expr): whether the expression is accepted.
ParseOk(expr) == expr \in CronExprs

\* schedule.Next(t): the first activation strictly after t.
NextTime(expr, t) == ((t \div Period(expr)) + 1) * Period(expr)

\* BackupRepository.GetBackupSchedule: the rows of the connection that
\* ORDER BY created_at DESC LIMIT 1 may return.
GetBackupSchedule(table, connectionID) ==
    {id \in DOMAIN table :
        /\ table[id].connection_id = connectionID
        /\ \A j \in DOMAIN table :
             table[j].connection_id = connectionID
                => table[j].created_at <= table[id].created_at}

\* BackupRepository.GetAllActiveSchedules
GetAllActiveSchedules(table) == {id \in DOMAIN table : table[id].enabled}

\* BackupRepository.UpdateBackupSchedule: UPDATE ... WHERE id = schedule.id.
UpdateBackupScheduleRow(table, schedule) ==
    [id \in DOMAIN table |->
        IF id = schedule.id
        THEN [table[id] EXCEPT !.enabled = schedule.enabled,
                               !.cron_schedule = schedule.cron_schedule,
                               !.retention_days = schedule.retention_days,
                               !.next_run_time = schedule.next_run_time,
                               !.last_backup_time = schedule.last_backup_time]
        ELSE table[id]]

\* A faulty test: a schedule with no next_run_time also counts as missed.
MissedRunOrUnset(schedule, now) == schedule.next_run_time < now

\* recoverSchedules: whether a catch-up run is started for the schedule.
MissedRun(schedule, now) ==
    schedule.next_run_time # NoTime /\ schedule.next_run_time < now

\* ---------------------------------------------------------------- actions
\* CreateBackup is bounded by the number of backup ids it may draw.
CanBackup(cid) ==
    nextBackupId + (IF cid \in DOMAIN connections /\ Len(connections[cid].selected) > 0
                    THEN Len(connections[cid].selected) ELSE 1) <= MaxBackups + 1

\* An on-demand backup: BackupHandler.CreateBackup -> BackupService.CreateBackup.
CreateBackup(cid, pre, os) ==
    /\ pre = "ok" => CanBackup(cid)
    /\ \E r \in {CreateBackupCall(World, settings, connections, cid, clock, pre, os)} :
           /\ SetWorld(r.w)
           /\ ret' = [op |-> "CreateBackup", conn |-> cid, scheduled |-> FALSE,
                      err |-> r.err, id |-> r.id, subs |-> r.subs,
                      tunnels |-> r.tunnels]
    /\ UNCHANGED << clock, envVars, schedVars >>

Tick ==
    /\ clock < MaxClock
    /\ clock' = clock + 1
    /\ ret' = NoRet
    /\ UNCHANGED << envVars, storeVars, schedVars >>

\* ------------------------------------------------------- the cron engine
IdleSlot == [pc |-> "idle"]

\* A request slot is used once: MaxCalls requests are served in a run.
DoneSlot == [pc |-> "done"]

FreeSlots(slots) == {i \in DOMAIN slots : slots[i].pc = "idle"}

\* The *BackupSchedule a closure holds: the row with its id.
ScheduleObject(id, row) ==
    [id |-> id, connection_id |-> row.connection_id, enabled |-> row.enabled,
     cron_schedule |-> row.cron_schedule, retention_days |-> row.retention_days,
     next_run_time |-> row.next_run_time, last_backup_time |-> row.last_backup_time]

\* cronManager.AddFunc(expr, func() { s.executeCronBackup(schedule) })
AddFunc(jobs, entryID, expr, schedule, now) ==
    (entryID :> [cron |-> expr, schedule |-> schedule, next |-> NextTime(expr, now)])
        @@ jobs

\* cronManager.Remove(entryID)
Remove(jobs, entryID) == [e \in DOMAIN jobs \ {entryID} |-> jobs[e]]

NewFiring(schedule) ==
    [pc |-> "backup", schedule |-> schedule, err |-> FALSE, bid |-> 0, records |-> {}]

\* The slot a new goroutine or request takes.
FreeSlot(slots) == CHOOSE i \in FreeSlots(slots) : \A j \in FreeSlots(slots) : i <= j

\* The loop of recoverSchedules over the active schedules ids (newest first;
\* the order does not matter to the result), drawing entry ids from entryID on.
RECURSIVE recoverLoop(_, _, _, _, _)
recoverLoop(table, ids, st, now, entryID) ==
    IF ids = {} THEN st
    ELSE
    LET id == CHOOSE i \in ids : \A j \in ids : table[j].created_at <= table[i].created_at
        schedule == ScheduleObject(id, table[id])
        st1 == IF MissedRun(schedule, now)
               THEN [st EXCEPT !.firings[FreeSlot(st.firings)] = NewFiring(schedule)]
               ELSE st
        st2 == [st1 EXCEPT
                  !.jobs = AddFunc(@, entryID, schedule.cron_schedule, schedule, now),
                  !.entries = (id :> entryID) @@ @]
    IN  recoverLoop(table, ids \ {id}, st2, now, entryID + 1)

\* NewBackupService: recoverSchedules, then cronManager.Start().  o is the
\* outcome of GetAllActiveSchedules: when it fails nothing is recovered.
recoverSchedules(o) ==
    /\ ~started
    /\ LET active == IF o = "ok" THEN GetAllActiveSchedules(schedules) ELSE {}
           st == recoverLoop(schedules, active,
                             [firings |-> firings, jobs |-> cronJobs,
                              entries |-> cronEntries],
                             clock, nextEntryId)
       IN  /\ Cardinality(active) <= Cardinality(FreeSlots(firings))
           /\ firings' = st.firings
           /\ cronJobs' = st.jobs
           /\ cronEntries' = st.entries
           /\ nextEntryId' = nextEntryId + Cardinality(active)
           /\ started' = TRUE
           /\ ret' = [op |-> "recoverSchedules", fetched |-> o = "ok"]
    /\ UNCHANGED << clock, envVars, storeVars, tableVars, calls, notifications >>

\* The engine activates an entry whose time has come and runs its job in a
\* goroutine of its own (cron.New(cron.WithSeconds()): no job wrapper).
CronFire(e) ==
    /\ started
    /\ e \in DOMAIN cronJobs
    /\ cronJobs[e].next <= clock
    /\ FreeSlots(firings) # {}
    /\ firings' = [firings EXCEPT ![FreeSlot(firings)] = NewFiring(cronJobs[e].schedule)]
    /\ cronJobs' = [cronJobs EXCEPT ![e].next = NextTime(cronJobs[e].cron, clock)]
    /\ ret' = NoRet
    /\ UNCHANGED << clock, envVars, storeVars, tableVars, cronEntries, nextEntryId,
                    started, calls, notifications >>

\* ---------------------------------------------------- executeCronBackup
\* A faulty firing: it returns after the notification when the backup failed.
executeCronBackupAbort(pc, err, schedule) ==
    CASE pc = "backup" -> "stamp"
      [] pc = "stamp" -> IF err THEN "done" ELSE "update"
      [] pc = "update" -> IF schedule.retention_days > 0 THEN "gc" ELSE "done"
      [] OTHER -> "done"

\* The step that follows step pc of executeCronBackup.
executeCronBackupNext(pc, err, schedule) ==
    CASE pc = "backup" -> "stamp"
      [] pc = "stamp" -> "update"
      [] pc = "update" -> IF schedule.retention_days > 0 THEN "gc" ELSE "done"
      [] OTHER -> "done"

Advance(f) ==
    LET pc == executeCronBackupNext(f.pc, f.err, f.schedule)
    IN  IF pc = "done" THEN IdleSlot ELSE [f EXCEPT !.pc = pc]

\* The ids of the records the dumps of one CreateBackup call inserted.
SavedIds(subs) == {subs[i].id : i \in {j \in 1..Len(subs) : subs[j].saved}}

\* backup, err := s.CreateBackup(schedule.ConnectionID); records remembers
\* which records the call inserted.
FiringBackup(slot, pre, os) ==
    /\ firings[slot].pc = "backup"
    /\ pre = "ok" => CanBackup(firings[slot].schedule.connection_id)
    /\ \E f \in {firings[slot]} :
        \E r \in {CreateBackupCall(World, settings, connections,
                                   f.schedule.connection_id, clock, pre, os)} :
           /\ SetWorld(r.w)
           /\ firings' = [firings EXCEPT
                            ![slot] = Advance([f EXCEPT !.err = r.err, !.bid = r.id,
                                                           !.records = SavedIds(r.subs)])]
           /\ ret' = NoRet
    /\ UNCHANGED << clock, envVars, tableVars, cronVars, calls, notifications >>

\* createFailureNotification: one backup_failed notification, unless the
\* notification cannot be built or stored.
createFailureNotification(table, connectionID, o) ==
    IF o = "ok"
    THEN Append(table, [type |-> "backup_failed", connection_id |-> connectionID])
    ELSE table

\* BackupRepository.UpdateBackupStatusAndSchedule
UpdateBackupStatusAndSchedule(table, id, status, scheduleID) ==
    [i \in DOMAIN table |->
        IF i = id THEN [table[i] EXCEPT !.status = status, !.schedule_id = scheduleID]
        ELSE table[i]]

\* A faulty branch: a notification whatever CreateBackup returned.
afterBackupNotify(err) == "notify"

\* What the branch after CreateBackup does: "notify" on an error, "stamp" on
\* success.
afterBackup(err) == IF err THEN "notify" ELSE "stamp"

FiringStamp(slot, o) ==
    /\ firings[slot].pc = "stamp"
    /\ LET f == firings[slot]
           branch == afterBackup(f.err)
       IN  /\ notifications' =
                  IF branch = "notify"
                  THEN createFailureNotification(notifications,
                                                 f.schedule.connection_id, o)
                  ELSE notifications
           /\ backups' =
                  IF branch = "stamp" /\ o = "ok"
                  THEN UpdateBackupStatusAndSchedule(backups, f.bid, "completed",
                                                     f.schedule.id)
                  ELSE backups
           /\ firings' = [firings EXCEPT ![slot] = Advance(f)]
           /\ ret' = NoRet
    /\ UNCHANGED << clock, envVars, files, objects, nextBackupId, tableVars, cronVars,
                    calls >>

\* The schedule executeCronBackup persists: the closure's object with the two
\* times set.
firedSchedule(schedule, now) ==
    [schedule EXCEPT !.next_run_time = NextTime(schedule.cron_schedule, now),
                     !.last_backup_time = now]

FiringUpdate(slot, o) ==
    /\ firings[slot].pc = "update"
    /\ LET f == firings[slot]
           schedule == firedSchedule(f.schedule, clock)
       IN  /\ schedules' = IF o = "ok" THEN UpdateBackupScheduleRow(schedules, schedule)
                           ELSE schedules
           /\ firings' = [firings EXCEPT ![slot] = Advance(f)]
           /\ ret' = [op |-> "FiringUpdate", saved |-> o = "ok"]
    /\ UNCHANGED << clock, envVars, storeVars, nextScheduleId, cronVars, calls,
                    notifications >>

FiringGC(slot, pre, os) ==
    /\ firings[slot].pc = "gc"
    /\ \E f \in {firings[slot]} :
        \E r \in {cleanupOldBackups(World, settings, connections,
                                    f.schedule.connection_id,
                                    f.schedule.retention_days, clock, pre, os)} :
           /\ SetWorld(r.w)
           /\ firings' = [firings EXCEPT ![slot] = Advance(f)]
           /\ ret' = [op |-> "cleanupOldBackups", conn |-> f.schedule.connection_id,
                      cutoff |-> clock - f.schedule.retention_days * DayLen,
                      bid |-> f.bid, client |-> r.client, items |-> r.items]
    /\ UNCHANGED << clock, envVars, tableVars, cronVars, calls, notifications >>

\* ------------------------------------------------- schedule operations
\* The (cron_schedule, retention_days) pairs of the requests.
ScheduleRequests ==
    {[cron |-> "every1", retention |-> 1], [cron |-> "every2", retention |-> 0],
     [cron |-> BadCron, retention |-> 1]}

ValidRequests == {req \in ScheduleRequests : ParseOk(req.cron)}

\* A faulty check: the expression is not parsed before the record is written.
rejectedNever(op, cron) == FALSE

\* Whether the call returns "invalid cron schedule": ScheduleBackup and
\* UpdateBackupSchedule parse the request's expression before they write.
rejected(op, cron) == op # "DisableBackupSchedule" /\ ~ParseOk(cron)

\* What a schedule operation returned.
CallRet(op, cid, sid, err) == [op |-> op, conn |-> cid, sid |-> sid, err |-> err]

\* The first half of ScheduleBackup, UpdateBackupSchedule and
\* DisableBackupSchedule: GetBackupSchedule, and for the first two the parse of
\* the request's expression.  existing = 0 stands for sql.ErrNoRows.
BeginCall(op, cid, cron, retention, existing) ==
    /\ started
    /\ FreeSlots(calls) # {}
    /\ \/ existing \in GetBackupSchedule(schedules, cid)
       \/ existing = 0 /\ GetBackupSchedule(schedules, cid) = {}
    /\ LET object == IF existing = 0 THEN IdleSlot
                     ELSE ScheduleObject(existing, schedules[existing])
           noRows == existing = 0 /\ op # "ScheduleBackup"
           badCron == rejected(op, cron)
       IN  IF noRows \/ badCron
           THEN /\ calls' = calls
                /\ ret' = CallRet(op, cid, existing,
                                  IF noRows THEN "no_rows" ELSE "bad_cron")
           ELSE /\ calls' = [calls EXCEPT ![FreeSlot(calls)] =
                               [pc |-> "write", op |-> op, conn |-> cid, cron |-> cron,
                                retention |-> retention, existing |-> object,
                                schedule |-> object,
                                nextRun |-> IF op = "ScheduleBackup"
                                            THEN NextTime(cron, clock) ELSE NoTime]]
                /\ ret' = NoRet
    /\ UNCHANGED << clock, envVars, storeVars, tableVars, cronVars, firings,
                    notifications >>

\* A faulty upsert: the existing record keeps its enabled flag.
scheduledObjectKeepFlag(call, id) ==
    IF call.existing # IdleSlot
    THEN [call.existing EXCEPT !.cron_schedule = call.cron,
                               !.retention_days = call.retention,
                               !.next_run_time = call.nextRun]
    ELSE [id |-> id, connection_id |-> call.conn, enabled |-> TRUE,
          cron_schedule |-> call.cron, retention_days |-> call.retention,
          next_run_time |-> call.nextRun, last_backup_time |-> NoTime]

\* The schedule ScheduleBackup writes: the existing row re-enabled and
\* overwritten, or a new one.
scheduledObject(call, id) ==
    IF call.existing # IdleSlot
    THEN [call.existing EXCEPT !.enabled = TRUE, !.cron_schedule = call.cron,
                               !.retention_days = call.retention,
                               !.next_run_time = call.nextRun]
    ELSE [id |-> id, connection_id |-> call.conn, enabled |-> TRUE,
          cron_schedule |-> call.cron, retention_days |-> call.retention,
          next_run_time |-> call.nextRun, last_backup_time |-> NoTime]

\* BackupRepository.CreateBackupSchedule
CreateBackupSchedule(table, schedule, now) ==
    (schedule.id :> [connection_id |-> schedule.connection_id,
                     enabled |-> schedule.enabled,
                     cron_schedule |-> schedule.cron_schedule,
                     retention_days |-> schedule.retention_days,
                     next_run_time |-> schedule.next_run_time,
                     last_backup_time |-> schedule.last_backup_time,
                     created_at |-> now]) @@ table

\* The step a call takes after its record is written: an existing record has
\* its old job removed first, a new one goes straight to AddFunc.
AfterWrite(call, schedule) ==
    [call EXCEPT !.pc = IF call.op = "ScheduleBackup" /\ call.existing = IdleSlot
                        THEN "add" ELSE "remove",
                 !.schedule = schedule]

\* ScheduleBackup writes the record: UpdateBackupSchedule on the row it read,
\* CreateBackupSchedule when there was none.  o is the outcome of the write.
WriteScheduleBackup(slot, o) ==
    /\ calls[slot].pc = "write"
    /\ calls[slot].op = "ScheduleBackup"
    /\ LET call == calls[slot]
           isNew == call.existing = IdleSlot
           schedule == scheduledObject(call, nextScheduleId)
       IN  /\ isNew => nextScheduleId <= MaxSchedules
           /\ IF o = "ok"
              THEN /\ schedules' = IF isNew
                                   THEN CreateBackupSchedule(schedules, schedule, clock)
                                   ELSE UpdateBackupScheduleRow(schedules, schedule)
                   /\ nextScheduleId' = IF isNew THEN nextScheduleId + 1
                                        ELSE nextScheduleId
                   /\ calls' = [calls EXCEPT ![slot] = AfterWrite(call, schedule)]
                   /\ ret' = NoRet
              ELSE /\ UNCHANGED tableVars
                   /\ calls' = [calls EXCEPT ![slot] = DoneSlot]
                   /\ ret' = NoRet
    /\ UNCHANGED << clock, envVars, storeVars, cronVars, firings, notifications >>

\* The schedule UpdateBackupSchedule writes.
updatedObject(call) ==
    [call.existing EXCEPT !.cron_schedule = call.cron, !.retention_days = call.retention]

WriteUpdateBackupSchedule(slot, o) ==
    /\ calls[slot].pc = "write"
    /\ calls[slot].op = "UpdateBackupSchedule"
    /\ LET call == calls[slot]
           schedule == updatedObject(call)
       IN  IF o = "ok"
           THEN /\ schedules' = UpdateBackupScheduleRow(schedules, schedule)
                /\ calls' = [calls EXCEPT ![slot] = AfterWrite(call, schedule)]
                /\ ret' = NoRet
           ELSE /\ schedules' = schedules
                /\ calls' = [calls EXCEPT ![slot] = DoneSlot]
                /\ ret' = NoRet
    /\ UNCHANGED << clock, envVars, storeVars, nextScheduleId, cronVars, firings,
                    notifications >>

\* The "remove the old job" block of ScheduleBackup and UpdateBackupSchedule:
\* the handle is looked up in cronEntries and removed from the engine;
\* UpdateBackupSchedule also deletes it from the map.
RemoveOldJob(slot) ==
    /\ calls[slot].pc = "remove"
    /\ LET call == calls[slot]
           sid == call.schedule.id
       IN  /\ cronJobs' = IF sid \in DOMAIN cronEntries
                          THEN Remove(cronJobs, cronEntries[sid]) ELSE cronJobs
           /\ cronEntries' = IF call.op = "UpdateBackupSchedule"
                             THEN [k \in DOMAIN cronEntries \ {sid} |-> cronEntries[k]]
                             ELSE cronEntries
           /\ calls' = [calls EXCEPT ![slot].pc = "add"]
           /\ ret' = NoRet
    /\ UNCHANGED << clock, envVars, storeVars, tableVars, nextEntryId, started, firings,
                    notifications >>

\* The "register the new job" block: AddFunc with a closure over the schedule
\* the call wrote, and the handle stored under its id.
registerJob(jobs, entries, entryID, schedule, now) ==
    [jobs |-> AddFunc(jobs, entryID, schedule.cron_schedule, schedule, now),
     entries |-> (schedule.id :> entryID)
                    @@ [k \in DOMAIN entries \ {schedule.id} |-> entries[k]]]

RegisterJob(slot) ==
    /\ calls[slot].pc = "add"
    /\ nextEntryId <= MaxEntries
    /\ LET call == calls[slot]
           job == registerJob(cronJobs, cronEntries, nextEntryId, call.schedule, clock)
       IN  /\ cronJobs' = job.jobs
           /\ cronEntries' = job.entries
           /\ nextEntryId' = nextEntryId + 1
           /\ ret' = CallRet(call.op, call.conn, call.schedule.id, "none")
    /\ calls' = [calls EXCEPT ![slot] = DoneSlot]
    /\ UNCHANGED << clock, envVars, storeVars, tableVars, started, firings,
                    notifications >>

\* The last step of ScheduleBackup.
FinishScheduleBackup(slot) ==
    /\ calls[slot].pc = "add"
    /\ calls[slot].op = "ScheduleBackup"
    /\ RegisterJob(slot)

\* The last step of UpdateBackupSchedule.
FinishUpdateBackupSchedule(slot) ==
    /\ calls[slot].pc = "add"
    /\ calls[slot].op = "UpdateBackupSchedule"
    /\ RegisterJob(slot)

\* The schedule DisableBackupSchedule writes.
disabledObject(call) == [call.existing EXCEPT !.enabled = FALSE]

\* The second half of DisableBackupSchedule: the job is removed, then the row
\* is written.
FinishDisableBackupSchedule(slot, o) ==
    /\ calls[slot].pc = "write"
    /\ calls[slot].op = "DisableBackupSchedule"
    /\ LET call == calls[slot]
           sid == call.existing.id
       IN  /\ cronJobs' = IF sid \in DOMAIN cronEntries
                          THEN Remove(cronJobs, cronEntries[sid]) ELSE cronJobs
           /\ cronEntries' = [k \in DOMAIN cronEntries \ {sid} |-> cronEntries[k]]
           /\ schedules' = IF o = "ok"
                           THEN UpdateBackupScheduleRow(schedules, disabledObject(call))
                           ELSE schedules
           /\ ret' = CallRet(call.op, call.conn, sid,
                             IF o = "ok" THEN "none" ELSE "write_err")
    /\ calls' = [calls EXCEPT ![slot] = DoneSlot]
    /\ UNCHANGED << clock, envVars, storeVars, nextScheduleId, nextEntryId, started,
                    firings, notifications >>

\* ------------------------------------------------- reading a backup back
\* filepath.Join(os.TempDir(), "velld-s3-downloads"): a folder no backup folder
\* is, "/" being no character of a sanitized name.
TempDir == << "/", "t", "m", "p" >>

\* A faulty temp path: the download goes to the backup's own path.
tempFilePathInPlace(path) == path

\* filepath.Join(tempDir, filepath.Base(backup.Path))
tempFilePath(path) == << TempDir >> \o Base(path)

\* The first step of the rehydration that fails, if any: the settings lookup,
\* Decrypt, NewS3Storage, os.MkdirAll, GetObject, io.Copy.
EnsureOutcomes ==
    {"ok", "settings_err", "decrypt_err", "client_err", "mkdir_err", "get_err", "copy_err"}

\* BackupService.ensureBackupFileAvailable on the files fs.  Returns the files
\* after it, the error, the path, is_temp, and whether S3 was contacted.
ensureBackupFileAvailable(fs, bucket, backup, st, o) ==
    LET fail(s3, fs1) == [files |-> fs1, err |-> TRUE, path |-> NoPath,
                          isTemp |-> FALSE, s3 |-> s3]
        tmp == tempFilePath(backup.path)
    IN  IF backup.path \in fs
        THEN [files |-> fs, err |-> FALSE, path |-> backup.path, isTemp |-> FALSE,
              s3 |-> FALSE]
        ELSE IF backup.s3_object_key = NoKey THEN fail(FALSE, fs)
        ELSE IF o = "settings_err" THEN fail(FALSE, fs)
        ELSE IF ~S3Configured(st) THEN fail(FALSE, fs)
        ELSE IF o = "decrypt_err" THEN fail(FALSE, fs)
        ELSE IF o \in {"client_err", "mkdir_err", "get_err"} THEN fail(TRUE, fs)
        ELSE IF o = "copy_err" \/ backup.s3_object_key \notin bucket
        THEN fail(TRUE, fs \cup {tmp})
        ELSE [files |-> fs \cup {tmp}, err |-> FALSE, path |-> tmp, isTemp |-> TRUE,
              s3 |-> TRUE]

\* What a call of ensureBackupFileAvailable was given and what it returned; the
\* outcome of the rehydration is "none" where none was attempted.
EnsureRet(id, fs, r, o) ==
    [id |-> id, local |-> backups[id].path \in fs,
     o |-> IF backups[id].path \in fs \/ backups[id].s3_object_key = NoKey
           THEN "none" ELSE o,
     err |-> r.err, path |-> r.path, isTemp |-> r.isTemp, s3 |-> r.s3]

\* The deferred os.Remove of a temp file.
removeTemp(fs, r, rm) == IF r.isTemp /\ rm = "ok" THEN fs \ {r.path} ELSE fs

\* The users of the installation; u1 is the one whose session the requests of
\* most runs carry.
Users == {"u1", "u2"}

SessionUser == "u1"

\* connections.user_id: written by Save with the user of the session, and by no
\* other statement.
UserOf(connectionID) == IF connectionID = "c1" THEN "u1" ELSE "u2"

\* What a request did: the user of its session, the files it obtained, the
\* outcome of the deferred os.Remove ("none" where none ran), and the return it
\* left by.
ReadRet(userID, op, results, removes, rm, exit) ==
    [op |-> op, user |-> userID, results |-> results,
     rm |-> IF removes THEN rm ELSE "none", exit |-> exit]

\* The engines a connection may have.
Engines == {"postgresql", "mysql", "mariadb", "mongodb", "redis"}

\* var restoreTools
restoreTools ==
    [t \in {"postgresql", "mysql", "mariadb", "mongodb"} |->
        IF t = "postgresql" THEN "psql"
        ELSE IF t = "mongodb" THEN "mongorestore" ELSE "mysql"]

\* verifyRestoreTools: an error iff the engine has no restore tool.
verifyRestoreTools(dbType) == dbType \in DOMAIN restoreTools

\* The patterns the restore validators look for in a line of output; a line is
\* the set of patterns it contains.
Patterns ==
    {"ERROR:", "WARNING:", "NOTICE:", "must be member of role", "no privileges",
     "already exists"}

\* strings.Contains(line, pattern)
Contains(line, pattern) == pattern \in line

nonCriticalPatterns == {"WARNING:", "must be member of role", "no privileges", "NOTICE:"}

\* A faulty classification: only warnings and notices are set aside.
isCriticalUnlessWarning(line) ==
    ~\E pattern \in {"WARNING:", "NOTICE:"} : Contains(line, pattern)

isCriticalPostgreSQLError(line) ==
    ~\E pattern \in nonCriticalPatterns : Contains(line, pattern)

\* The outcome of a validator: no error, or the kind of error and the count it
\* carries.
RestoreOk == [err |-> "none", n |-> 0]

\* validatePostgreSQLRestore: the exit status of psql is not looked at.
validatePostgreSQLRestore(output, cmdErr) ==
    LET criticalErrors == {i \in 1..Len(output) :
                              /\ Contains(output[i], "ERROR:")
                              /\ isCriticalPostgreSQLError(output[i])}
    IN  IF criticalErrors # {}
        THEN IF \E i \in criticalErrors : Contains(output[i], "already exists")
             THEN [err |-> "target_not_empty", n |-> 0]
             ELSE [err |-> "restore_failed", n |-> Cardinality(criticalErrors)]
        ELSE RestoreOk

\* validateMySQLRestore and validateMongoDBRestore: the exit status alone.
validateByExitStatus(output, cmdErr) ==
    IF cmdErr THEN [err |-> "restore_failed", n |-> 0] ELSE RestoreOk

validateRestoreOutput(dbType, output, cmdErr) ==
    IF dbType = "postgresql" THEN validatePostgreSQLRestore(output, cmdErr)
    ELSE IF dbType \in {"mysql", "mariadb", "mongodb"}
    THEN validateByExitStatus(output, cmdErr)
    ELSE [err |-> "unsupported", n |-> 0]

\* The steps of RestoreBackup after the file was obtained: verifyRestoreTools,
\* the SSH tunnel, the restore command and its run.  run gives the outcome of
\* the tunnel set-up, whether the tool's binary is found, and the exit status
\* and output of the tool.
restoreSteps(conn, run) ==
    LET t == setupSSHTunnelIfNeeded(conn, run.tunnel)
        opened == IF t.tunnel THEN 1 ELSE 0
        out(exit, ran, open, v) ==
            [exit |-> exit, executed |-> ran, tunnels |-> Tunnels(open, exit # "ok"),
             engine |-> conn.type, cmdErr |-> ran /\ run.cmdErr,
             output |-> IF ran THEN run.output ELSE << >>, n |-> v.n]
        v == validateRestoreOutput(conn.type, run.output, run.cmdErr)
    IN  IF ~verifyRestoreTools(conn.type) THEN out("tools_err", FALSE, 0, RestoreOk)
        ELSE IF t.err THEN out("tunnel_err", FALSE, 0, RestoreOk)
        ELSE IF run.tool # "found" THEN out("cmd_nil", FALSE, opened, RestoreOk)
        ELSE out(IF v.err = "none" THEN "ok" ELSE v.err, TRUE, opened, v)

\* The run of a restore that was not reached.
NoRun == [exit |-> "ensure_err", executed |-> FALSE, tunnels |-> Tunnels(0, TRUE),
          engine |-> "", cmdErr |-> FALSE, output |-> << >>, n |-> 0]

\* The runs a restore request may meet, the tool printing nothing.
RestoreRuns ==
    [tunnel : {"ok"}, tool : {"found", "missing"}, cmdErr : BOOLEAN, output : {<< >>}]

\* BackupService.RestoreBackup: the file is obtained, and the deferred
\* os.Remove runs at every return after that.  A request takes one unit of time.
RestoreBackup(userID, id, cid, o, rm, run) ==
    /\ clock < MaxClock
    /\ id \in DOMAIN backups
    /\ cid \in DOMAIN connections
    /\ \E r \in {ensureBackupFileAvailable(files, objects, backups[id], settings, o)} :
        \E s \in {IF r.err THEN NoRun ELSE restoreSteps(connections[cid], run)} :
          /\ files' = IF r.err THEN r.files ELSE removeTemp(r.files, r, rm)
          /\ ret' = ReadRet(userID, "RestoreBackup", << EnsureRet(id, files, r, o) >>,
                            r.isTemp, rm, s.exit)
                      @@ [conn |-> cid, run |-> s]
    /\ clock' = clock + 1
    /\ UNCHANGED << envVars, objects, backups, nextBackupId, schedVars >>

\* The steps of DownloadBackup after the file was obtained: os.Open, io.Copy.
DownloadExits == {"ok", "open_err", "send_err"}

\* BackupHandler.DownloadBackup
DownloadBackup(userID, id, o, rm, exit) ==
    /\ clock < MaxClock
    /\ id \in DOMAIN backups
    /\ \E r \in {ensureBackupFileAvailable(files, objects, backups[id], settings, o)} :
          /\ files' = IF r.err THEN r.files ELSE removeTemp(r.files, r, rm)
          /\ ret' = ReadRet(userID, "DownloadBackup", << EnsureRet(id, files, r, o) >>,
                            r.isTemp, rm, IF r.err THEN "ensure_err" ELSE exit)
    /\ clock' = clock + 1
    /\ UNCHANGED << envVars, objects, backups, nextBackupId, schedVars >>

\* The steps of CompareBackups after both files were obtained.
CompareExits == {"ok", "read_source_err", "read_target_err"}

\* The files after CompareBackups returns: the deferred clean-up of both temp
\* files is registered only once both files were obtained.
compareCleanup(fs, source, sourceOk, target, targetOk, rm) ==
    IF sourceOk /\ targetOk
    THEN removeTemp(removeTemp(fs, source, rm), target, rm)
    ELSE fs

\* BackupHandler.CompareBackups
CompareBackups(userID, sourceID, targetID, o1, o2, rm, exit) ==
    /\ clock < MaxClock
    /\ sourceID \in DOMAIN backups
    /\ targetID \in DOMAIN backups
    /\ \E source \in {ensureBackupFileAvailable(files, objects, backups[sourceID],
                                                settings, o1)} :
        \E target \in {ensureBackupFileAvailable(source.files, objects,
                                                 backups[targetID], settings, o2)} :
          IF source.err
          THEN /\ files' = source.files
               /\ ret' = ReadRet(userID, "CompareBackups",
                                 << EnsureRet(sourceID, files, source, o1) >>,
                                 FALSE, rm, "source_err")
          ELSE /\ files' = compareCleanup(target.files, source, TRUE,
                                          target, ~target.err, rm)
               /\ ret' = ReadRet(userID, "CompareBackups",
                                 << EnsureRet(sourceID, files, source, o1),
                                    EnsureRet(targetID, source.files, target, o2) >>,
                                 ~target.err /\ (source.isTemp \/ target.isTemp), rm,
                                 IF target.err THEN "target_err" ELSE exit)
    /\ clock' = clock + 1
    /\ UNCHANGED << envVars, objects, backups, nextBackupId, schedVars >>

\* ------------------------------------------ S3 folder of a connection
\* In this part object keys are strings: sequences of characters, "/" between
\* the parts, the empty sequence for no key.

\* strings.Index(s, sub): where sub first occurs in s, 0 if nowhere.
Index(s, sub) ==
    LET at == {i \in 1..(Len(s) - Len(sub) + 1) : SubSeq(s, i, i + Len(sub) - 1) = sub}
    IN  IF at = {} THEN 0 ELSE CHOOSE i \in at : \A j \in at : i <= j

\* strings.Replace(s, old, new, 1)
Replace(s, old, new) ==
    LET i == Index(s, old)
    IN  IF i = 0 THEN s
        ELSE SubSeq(s, 1, i - 1) \o new \o SubSeq(s, i + Len(old), Len(s))

\* S3Storage.getObjectKeyWithPath on strings: strings.Join(parts, "/")
objectKeyString(prefix, fileName, subfolder) ==
    (IF prefix # << >> THEN prefix \o << "/" >> ELSE << >>)
        \o (IF subfolder # << >> THEN subfolder \o << "/" >> ELSE << >>)
        \o fileName

\* BackupRepository.GetBackupsByConnectionID
GetBackupsByConnectionID(table, connectionID) ==
    {id \in DOMAIN table : table[id].connection_id = connectionID}

\* Outcomes of the steps of the two S3 operations before their loop.
FolderPreOutcomes ==
    {"ok", "fetch_err", "conn_err", "settings_err", "decrypt_err", "client_err"}

\* Outcomes of the rename of one object: CopyObject, RemoveObject,
\* UpdateBackupS3ObjectKey.
OkMove == [copy |-> "ok", remove |-> "ok", update |-> "ok"]

MoveOutcomes ==
    {OkMove, [OkMove EXCEPT !.copy = "err"], [OkMove EXCEPT !.remove = "err"],
     [OkMove EXCEPT !.update = "err"]}

\* S3Storage.MoveFile: copy, then delete the old object; the copy of an object
\* that is not there fails.
MoveFile(bucket, oldKey, newKey, o) ==
    IF o.copy # "ok" \/ oldKey \notin bucket
    THEN [objects |-> bucket, err |-> TRUE]
    ELSE IF o.remove # "ok"
    THEN [objects |-> bucket \cup {newKey}, err |-> TRUE]
    ELSE [objects |-> (bucket \cup {newKey}) \ {oldKey}, err |-> FALSE]

\* The body of the rename loop for one backup: what it leaves and what it did.
renameOne(w, id, oldFolder, newFolder, o) ==
    LET oldKey == w.backups[id].s3_object_key
        newKey == Replace(oldKey, oldFolder, newFolder)
        mv == MoveFile(w.objects, oldKey, newKey, o)
        item(moved, updated) == [id |-> id, oldKey |-> oldKey, newKey |-> newKey,
                                 moved |-> moved, updated |-> updated]
    IN  IF oldKey = NoKey \/ oldKey = newKey THEN [w |-> w, items |-> {}]
        ELSE IF mv.err
        THEN [w |-> [w EXCEPT !.objects = mv.objects], items |-> {item(FALSE, FALSE)}]
        ELSE IF o.update # "ok"
        THEN [w |-> [w EXCEPT !.objects = mv.objects], items |-> {item(TRUE, FALSE)}]
        ELSE [w |-> [w EXCEPT !.objects = mv.objects,
                              !.backups[id].s3_object_key = newKey],
              items |-> {item(TRUE, TRUE)}]

\* The rename loop over the backups ids, newest first.
RECURSIVE renameLoop(_, _, _, _, _)
renameLoop(w, ids, oldFolder, newFolder, os) ==
    IF ids = {} THEN [w |-> w, items |-> {}]
    ELSE
    LET id == CHOOSE i \in ids : \A j \in ids : j <= i
        r == renameOne(w, id, oldFolder, newFolder, os[id])
        rest == renameLoop(r.w, ids \ {id}, oldFolder, newFolder, os)
    IN  [w |-> rest.w, items |-> r.items \cup rest.items]

\* BackupService.RenameS3FolderForConnection: the stores after it, its error,
\* whether it got as far as the loop, and what the loop did.
RenameS3FolderForConnection(w, st, conns, connectionID, oldName, newName, pre, os) ==
    LET ids == GetBackupsByConnectionID(w.backups, connectionID)
        oldFolder == SanitizeConnectionName(oldName)
        newFolder == SanitizeConnectionName(newName)
        out(err) == [w |-> w, err |-> err, looped |-> FALSE, items |-> {}]
    IN  IF pre = "fetch_err" THEN out(TRUE)
        ELSE IF ids = {} THEN out(FALSE)
        ELSE IF pre = "conn_err" \/ connectionID \notin DOMAIN conns THEN out(TRUE)
        ELSE IF pre = "settings_err" THEN out(TRUE)
        ELSE IF ~S3Configured(st) THEN out(FALSE)
        ELSE IF pre \in {"decrypt_err", "client_err"} THEN out(TRUE)
        ELSE IF oldFolder = newFolder THEN out(FALSE)
        ELSE LET r == renameLoop(w, ids, oldFolder, newFolder, os)
             IN  [w |-> r.w, err |-> FALSE, looped |-> TRUE, items |-> r.items]

\* A direct call of RenameS3FolderForConnection, taking one unit of time.
RenameCall(connectionID, oldName, newName, pre, os) ==
    /\ clock < MaxClock
    /\ \E r \in {RenameS3FolderForConnection(World, settings, connections, connectionID,
                                             oldName, newName, pre, os)} :
          /\ SetWorld(r.w)
          /\ ret' = [op |-> "RenameS3FolderForConnection", conn |-> connectionID,
                     oldName |-> oldName, newName |-> newName, err |-> r.err,
                     looped |-> r.looped, items |-> r.items]
    /\ clock' = clock + 1
    /\ UNCHANGED << envVars, schedVars >>

\* Outcomes of the S3 delete of one object.
DeleteOutcomes == {"ok", "err"}

\* The cleanup loop: a delete for every backup with a key, whatever the
\* outcome of the deletes before it.
cleanupS3Loop(bucket, table, ids, os) ==
    LET keyed == {id \in ids : table[id].s3_object_key # NoKey}
    IN  [objects |-> bucket \ {table[id].s3_object_key : id \in {i \in keyed : os[i] = "ok"}},
         items |-> {[id |-> id, key |-> table[id].s3_object_key, o |-> os[id]] :
                      id \in keyed}]

\* BackupService.CleanupS3BackupsForConnection: the stores after it, its error,
\* whether it got as far as the loop, and the deletes it issued.
CleanupS3BackupsForConnection(w, st, conns, connectionID, pre, os) ==
    LET ids == GetBackupsByConnectionID(w.backups, connectionID)
        out(err) == [w |-> w, err |-> err, looped |-> FALSE, items |-> {}]
    IN  IF pre = "fetch_err" THEN out(TRUE)
        ELSE IF ids = {} THEN out(FALSE)
        ELSE IF pre = "conn_err" \/ connectionID \notin DOMAIN conns THEN out(TRUE)
        ELSE IF pre = "settings_err" THEN out(TRUE)
        ELSE IF ~S3Configured(st) THEN out(FALSE)
        ELSE IF pre \in {"decrypt_err", "client_err"} THEN out(TRUE)
        ELSE LET r == cleanupS3Loop(w.objects, w.backups, ids, os)
             IN  [w |-> [w EXCEPT !.objects = r.objects], err |-> FALSE,
                  looped |-> TRUE, items |-> r.items]

\* The secrets a request carries: the password, the SSH password and the SSH
\* private key, each empty or not.
SecretInputs == [password : {"", "s"}, ssh_password : {"", "t"}, ssh_private_key : {"", "k"}]

\* The secrets of the initial connections, as a request would carry them.
InitSecretsOf == [password |-> "s", ssh_password |-> "", ssh_private_key |-> ""]

\* The SSH columns are encrypted only when set.
encryptIfSet(plaintext) == IF plaintext # "" THEN Encrypt(plaintext) ELSE NoCipher

decryptIfSet(ciphertext) == IF ciphertext # NoCipher THEN Decrypt(ciphertext) ELSE ""

\* The StoredConnection the service builds from the request's config and
\* returns: the secrets are the config's, and S3CleanupOnRetention, which the
\* literal does not set, is the zero value.
storedConnOf(id, name, secrets) ==
    [id |-> id, name |-> name, password |-> secrets.password,
     ssh_password |-> secrets.ssh_password, ssh_private_key |-> secrets.ssh_private_key,
     s3cleanup |-> FALSE]

\* A faulty update: a config without the flag switches the cleanup on.
flagOrTrue(existing, flag) == IF flag = "nil" THEN TRUE ELSE flag = "true"

\* ConnectionService.UpdateConnection: the existing value is preserved unless
\* the config carries the flag.
flagOrExisting(existing, flag) == IF flag = "nil" THEN existing ELSE flag = "true"

\* The secret columns ConnectionRepository.Save and Update write.
secretColumns(conn) ==
    [password |-> Encrypt(conn.password), ssh_password |-> encryptIfSet(conn.ssh_password),
     ssh_private_key |-> encryptIfSet(conn.ssh_private_key)]

\* ConnectionRepository.Update, for the columns of a row kept here.
repoUpdate(row, conn) ==
    [row EXCEPT !.name = conn.name, !.s3cleanup = conn.s3cleanup,
                !.password = secretColumns(conn).password,
                !.ssh_password = secretColumns(conn).ssh_password,
                !.ssh_private_key = secretColumns(conn).ssh_private_key]

\* ConnectionRepository.Save: the row of a new connection; no database is
\* selected, and s3_cleanup_on_retention is 1 unless the struct's flag is
\* false.
repoSave(conn) ==
    [name |-> conn.name, database |-> "shop", selected |-> << >>,
     s3cleanup |-> IF ~conn.s3cleanup THEN FALSE ELSE TRUE,
     type |-> "postgresql", ssh |-> FALSE] @@ secretColumns(conn)

\* ConnectionRepository.GetConnection: the row with its secrets decrypted.
repoGetConnection(conns, id) ==
    [id |-> id, name |-> conns[id].name, s3cleanup |-> conns[id].s3cleanup,
     password |-> Decrypt(conns[id].password),
     ssh_password |-> decryptIfSet(conns[id].ssh_password),
     ssh_private_key |-> decryptIfSet(conns[id].ssh_private_key)]

\* The body of a response that carries no connection.
NoBody == [id |-> ""]

\* ConnectionHandler.GetConnection: the StoredConnection of the repository is
\* encoded as it is.
GetConnection(id, o) ==
    /\ clock < MaxClock
    /\ LET found == o = "ok" /\ id \in DOMAIN connections
       IN  ret' = [op |-> "GetConnection", conn |-> id, failed |-> ~found,
                   body |-> IF found THEN repoGetConnection(connections, id) ELSE NoBody]
    /\ clock' = clock + 1
    /\ UNCHANGED << envVars, storeVars, schedVars >>

\* The steps of ConnectionService.SaveConnection: Connect, then repo.Save.
SaveOutcomes == {"ok", "connect_err", "save_err"}

\* ConnectionHandler.SaveConnection: the StoredConnection built from the config
\* is saved and encoded as it is.
SaveConnection(id, name, secrets, o) ==
    /\ clock < MaxClock
    /\ id \notin DOMAIN connections
    /\ LET storedConn == storedConnOf(id, name, secrets)
       IN  /\ connections' = IF o = "ok" THEN (id :> repoSave(storedConn)) @@ connections
                             ELSE connections
           /\ ret' = [op |-> "SaveConnection", conn |-> id, failed |-> o # "ok",
                      body |-> IF o = "ok" THEN storedConn ELSE NoBody]
    /\ clock' = clock + 1
    /\ UNCHANGED << settings, storeVars, schedVars >>

\* ConnectionRepository.Delete
DeleteConnectionRow(conns, id) == [c \in DOMAIN conns \ {id} |-> conns[c]]

\* A faulty handler: the connection record is removed before the cleanup.
connectionsAfterDelete(conns, id) == DeleteConnectionRow(conns, id)

\* The connections table CleanupS3BackupsForConnection finds: the handler calls
\* it before service.DeleteConnection.
connectionsAtCleanup(conns, id) == conns

\* A faulty handler: the request fails when its S3 step did.
failedWithS3(own, s3err) == own # "ok" \/ s3err

\* Whether a delete or update request fails: only on its own steps, an error of
\* its S3 step is a warning.
requestFailed(own, s3err) == own # "ok"

\* ConnectionHandler.DeleteConnection: the cleanup when asked for, then the
\* delete of the record.
DeleteConnection(id, cleanupS3, pre, os, own) ==
    /\ clock < MaxClock
    /\ \E r \in {IF cleanupS3
                 THEN CleanupS3BackupsForConnection(
                          World, settings, connectionsAtCleanup(connections, id), id,
                          pre, os)
                 ELSE [w |-> World, err |-> FALSE, looped |-> FALSE, items |-> {}]} :
          /\ SetWorld(r.w)
          /\ connections' = IF own = "ok" THEN DeleteConnectionRow(connections, id)
                            ELSE connections
          /\ ret' = [op |-> "DeleteConnection", conn |-> id, cleanupS3 |-> cleanupS3,
                     pre |-> IF cleanupS3 THEN pre ELSE "none", s3err |-> r.err, looped |-> r.looped, items |-> r.items,
                     own |-> own, failed |-> requestFailed(own, r.err)]
    /\ clock' = clock + 1
    /\ UNCHANGED << settings, schedVars >>

\* The steps of an update request itself: the handler's GetConnection, then in
\* ConnectionService.UpdateConnection Connect, GetConnection and Update.
UpdateOwnOutcomes == {"ok", "get_err", "connect_err", "update_err"}

\* ConnectionHandler.UpdateConnection: the record is updated, then the S3 folder
\* is renamed if the name changed.
UpdateConnection(id, name, secrets, flag, own, pre, os) ==
    /\ clock < MaxClock
    /\ LET found == id \in DOMAIN connections
           effective == IF found THEN own ELSE "get_err"
           storedConn == [storedConnOf(id, name, secrets) EXCEPT
                             !.s3cleanup = flagOrExisting(connections[id].s3cleanup, flag)]
           updated == IF effective = "ok"
                      THEN [connections EXCEPT ![id] = repoUpdate(@, storedConn)]
                      ELSE connections
           renames == effective = "ok" /\ connections[id].name # name
       IN  \E r \in {IF renames
                     THEN RenameS3FolderForConnection(World, settings, updated, id,
                                                      connections[id].name, name, pre, os)
                     ELSE [w |-> World, err |-> FALSE, looped |-> FALSE, items |-> {}]} :
              /\ SetWorld(r.w)
              /\ connections' = updated
              /\ ret' = [op |-> "UpdateConnection", conn |-> id, name |-> name,
                         flag |-> flag,
                         renames |-> renames, s3err |-> r.err, looped |-> r.looped,
                         items |-> r.items, own |-> effective,
                         failed |-> requestFailed(effective, r.err),
                         body |-> IF effective = "ok" THEN storedConn ELSE NoBody]
    /\ clock' = clock + 1
    /\ UNCHANGED << settings, schedVars >>

\* ------------------------------------------------------------ specifications
InitStores ==
    /\ clock = 0
    /\ files = {}
    /\ objects = {}
    /\ backups = << >>
    /\ nextBackupId = 1
    /\ notifications = << >>
    /\ ret = NoRet

InitIdle(maxFirings) ==
    /\ cronJobs = << >>
    /\ cronEntries = << >>
    /\ nextEntryId = 1
    /\ firings = [i \in 1..maxFirings |-> IdleSlot]
    /\ calls = [i \in 1..MaxCalls |-> IdleSlot]

\* On-demand backups under every S3 configuration; no schedule exists.
InitBackup ==
    /\ InitStores
    /\ InitIdle(MaxFirings)
    /\ connections = InitConnections
    /\ settings \in SettingsInputs
    /\ schedules = << >>
    /\ nextScheduleId = 1
    /\ started = TRUE

NextBackup ==
    \/ Tick
    \/ \E cid \in DOMAIN connections, pre \in PreOutcomes :
         \E os \in OutcomeSeqs(cid, pre) : CreateBackup(cid, pre, os)

SpecBackup == InitBackup /\ [][NextBackup]_vars

\* The schedule rows a process may find at start-up: none, or one row of c1.
InitScheduleTables ==
    {<< >>} \cup
    {(1 :> [connection_id |-> "c1", enabled |-> en, cron_schedule |-> "every1",
            retention_days |-> rd, next_run_time |-> nx, last_backup_time |-> NoTime,
            created_at |-> 0]) : en \in BOOLEAN, nx \in {NoTime, 0}, rd \in {0, 1}}

\* S3 on and fully configured, purge on.
SchedSettingsInputs ==
    {[S3Enabled |-> TRUE, S3Endpoint |-> "e", S3Bucket |-> "b", S3AccessKey |-> "k",
      S3SecretKey |-> "s", S3PathPrefix |-> "", S3PurgeLocal |-> TRUE]}

\* A dump that succeeds, one whose upload fails, one whose dump tool fails.
SchedDumpOutcomes ==
    {OkOutcome, [OkOutcome EXCEPT !.s3 = "put_err"], [OkOutcome EXCEPT !.cmd = "dump_err"]}

\* The steps of the firings in flight.
NextFirings(pres, outcomes, writes, gcPres, gcOutcomes) ==
    \/ \E slot \in DOMAIN firings, pre \in pres :
         /\ firings[slot].pc = "backup"
         /\ \E os \in [1..DumpCount(firings[slot].schedule.connection_id) -> outcomes] :
              FiringBackup(slot, pre, os)
    \/ \E slot \in DOMAIN firings, o \in writes : FiringStamp(slot, o)
    \/ \E slot \in DOMAIN firings, o \in writes : FiringUpdate(slot, o)
    \/ \E slot \in DOMAIN firings, pre \in gcPres :
         /\ firings[slot].pc = "gc"
         /\ \E os \in [GetBackupsOlderThan(backups, firings[slot].schedule.connection_id,
                             clock - firings[slot].schedule.retention_days * DayLen)
                            -> gcOutcomes] :
              FiringGC(slot, pre, os)

\* The scheduler at work: the process starts with recoverSchedules on the rows
\* it finds; cron firings and on-demand backups interleave.
Init ==
    /\ InitStores
    /\ InitIdle(MaxFirings)
    /\ connections = [c \in {"c1"} |-> InitConnections[c]]
    /\ settings \in SchedSettingsInputs
    /\ schedules \in InitScheduleTables
    /\ nextScheduleId = Cardinality(DOMAIN schedules) + 1
    /\ started = FALSE

Next ==
    \/ Tick
    \/ \E o \in {"ok", "err"} : recoverSchedules(o)
    \/ \E e \in DOMAIN cronJobs : CronFire(e)
    \/ \E cid \in DOMAIN connections, pre \in {"ok", "conn_err"} :
         \E os \in [1..1 -> SchedDumpOutcomes] : CreateBackup(cid, pre, os)
    \/ NextFirings({"ok", "conn_err"}, SchedDumpOutcomes, {"ok", "err"},
                   {"ok", "fetch_err", "client_err"}, GcItemOutcomes)

Spec == Init /\ [][Next]_vars

\* The schedule requests racing each other and the firings: the process starts
\* on an empty schedule table, S3 is off and the storage steps succeed.
InitSched ==
    /\ InitStores
    /\ InitIdle(MaxRacingFirings)
    /\ connections = [c \in {"c1"} |-> InitConnections[c]]
    /\ settings \in {s \in SettingsInputs : ~s.S3Enabled /\ ~s.S3PurgeLocal}
    /\ schedules \in {t \in InitScheduleTables :
                        \A id \in DOMAIN t : /\ t[id].enabled
                                              /\ t[id].retention_days = 1
                                              /\ t[id].next_run_time = NoTime}
    /\ nextScheduleId = Cardinality(DOMAIN schedules) + 1
    /\ started = FALSE

\* The steps of the schedule requests in flight.
NextCalls ==
    \/ \E slot \in DOMAIN calls, o \in {"ok", "err"} : WriteScheduleBackup(slot, o)
    \/ \E slot \in DOMAIN calls, o \in {"ok", "err"} : WriteUpdateBackupSchedule(slot, o)
    \/ \E slot \in DOMAIN calls : RemoveOldJob(slot)
    \/ \E slot \in DOMAIN calls : FinishScheduleBackup(slot)
    \/ \E slot \in DOMAIN calls : FinishUpdateBackupSchedule(slot)
    \/ \E slot \in DOMAIN calls, o \in {"ok", "err"} : FinishDisableBackupSchedule(slot, o)

NextSched ==
    \/ Tick
    \/ \E o \in {"ok", "err"} : recoverSchedules(o)
    \/ \E e \in DOMAIN cronJobs : CronFire(e)
    \/ NextFirings({"ok"}, {OkOutcome}, {"ok"}, {"ok"}, {OkGcOutcome})
    \/ \E cid \in DOMAIN connections, req \in ValidRequests,
          existing \in 0..MaxSchedules :
         BeginCall("ScheduleBackup", cid, req.cron, req.retention, existing)
    \/ \E cid \in DOMAIN connections, req \in ValidRequests,
          existing \in 0..MaxSchedules :
         BeginCall("UpdateBackupSchedule", cid, req.cron, req.retention, existing)
    \/ \E cid \in DOMAIN connections, existing \in 0..MaxSchedules :
         BeginCall("DisableBackupSchedule", cid, BadCron, 0, existing)
    \/ NextCalls

SpecSched == InitSched /\ [][NextSched]_vars

\* Schedule requests served one at a time, on every kind of schedule table a
\* process may find (none, an enabled or a disabled record), with firings.
NoCallInFlight == \A slot \in DOMAIN calls : calls[slot].pc \in {"idle", "done"}

InitSeq ==
    /\ InitStores
    /\ InitIdle(MaxRacingFirings)
    /\ connections = [c \in {"c1"} |-> InitConnections[c]]
    /\ settings \in {s \in SettingsInputs : ~s.S3Enabled /\ ~s.S3PurgeLocal}
    /\ schedules \in InitScheduleTables
    /\ nextScheduleId = Cardinality(DOMAIN schedules) + 1
    /\ started = FALSE

NextSeq ==
    \/ Tick
    \/ \E o \in {"ok", "err"} : recoverSchedules(o)
    \/ \E e \in DOMAIN cronJobs : CronFire(e)
    \/ NextFirings({"ok"}, {OkOutcome}, {"ok"}, {"ok"}, {OkGcOutcome})
    \/ \E cid \in DOMAIN connections, req \in ScheduleRequests,
          existing \in 0..MaxSchedules :
         /\ NoCallInFlight
         /\ BeginCall("ScheduleBackup", cid, req.cron, req.retention, existing)
    \/ \E cid \in DOMAIN connections, req \in ScheduleRequests,
          existing \in 0..MaxSchedules :
         /\ NoCallInFlight
         /\ BeginCall("UpdateBackupSchedule", cid, req.cron, req.retention, existing)
    \/ \E cid \in DOMAIN connections, existing \in 0..MaxSchedules :
         /\ NoCallInFlight
         /\ BeginCall("DisableBackupSchedule", cid, BadCron, 0, existing)
    \/ NextCalls

SpecSeq == InitSeq /\ [][NextSeq]_vars

\* The retention GC on stores left by an earlier process: the c1 schedule fires
\* and cleans up among two older records.
GcSettingsInputs ==
    SchedSettingsInputs
        \cup {[s EXCEPT !.S3Bucket = ""] : s \in SchedSettingsInputs}
        \cup {s \in SettingsInputs : ~s.S3Enabled /\ ~s.S3PurgeLocal}

\* A record an earlier process left, its dump path and its object key.
StoredPath(cid, db, createdAt) == BackupPath(InitConnections[cid].name, db, createdAt)

StoredKey(cid, db, createdAt) ==
    getObjectKeyWithPath("", Base(StoredPath(cid, db, createdAt)),
                         SanitizeConnectionName(InitConnections[cid].name))

StoredBackup(id, cid, db, status, createdAt, key) ==
    [id |-> id, connection_id |-> cid, schedule_id |-> NoSchedule, status |-> status,
     path |-> StoredPath(cid, db, createdAt), s3_object_key |-> key, size |-> 1,
     started_time |-> createdAt,
     completed_time |-> IF status = "completed" THEN createdAt ELSE NoTime,
     created_at |-> createdAt]

\* Record -2 is a completed backup of c1 made two ticks before the start, with
\* its file, its object, or both; record -1 was made one tick before the start
\* and is of c1 or c2, in any status, with its file and its object.
InitGcStores ==
    {[backups |-> (-2 :> StoredBackup(-2, "c1", "shop", "completed", -2,
                                       IF hasKey THEN StoredKey("c1", "shop", -2)
                                       ELSE NoKey))
                  @@ (-1 :> StoredBackup(-1, cid, IF cid = "c1" THEN "shop" ELSE "a",
                                         status, -1,
                                         StoredKey(cid, IF cid = "c1" THEN "shop" ELSE "a",
                                                   -1))),
      files |-> (IF hasFile THEN {StoredPath("c1", "shop", -2)} ELSE {})
                  \cup {StoredPath(cid, IF cid = "c1" THEN "shop" ELSE "a", -1)},
      objects |-> (IF hasKey THEN {StoredKey("c1", "shop", -2)} ELSE {})
                  \cup {StoredKey(cid, IF cid = "c1" THEN "shop" ELSE "a", -1)}] :
        hasKey \in BOOLEAN, hasFile \in BOOLEAN, cid \in ConnectionIds,
        status \in {"completed", "in_progress", "failed"}}

InitGc ==
    /\ clock = 0
    /\ \E s \in {t \in InitGcStores : t.backups[-2].s3_object_key # NoKey
                                          \/ t.backups[-2].path \in t.files} :
          /\ backups = s.backups
          /\ files = s.files
          /\ objects = s.objects
    /\ nextBackupId = 1
    /\ notifications = << >>
    /\ ret = NoRet
    /\ InitIdle(MaxRacingFirings)
    /\ \E flag \in BOOLEAN :
          connections = [c \in ConnectionIds |->
                            IF c = "c1" THEN [InitConnections[c] EXCEPT !.s3cleanup = flag]
                            ELSE InitConnections[c]]
    /\ settings \in GcSettingsInputs
    /\ schedules \in {t \in InitScheduleTables :
                        /\ t # << >>
                        /\ \A id \in DOMAIN t : t[id].enabled /\ t[id].retention_days = 1}
    /\ nextScheduleId = Cardinality(DOMAIN schedules) + 1
    /\ started = FALSE

NextGc ==
    \/ Tick
    \/ \E o \in {"ok", "err"} : recoverSchedules(o)
    \/ \E e \in DOMAIN cronJobs : CronFire(e)
    \/ NextFirings({"ok", "conn_err"}, {OkOutcome}, {"ok"}, GcPreOutcomes, GcItemOutcomes)

SpecGc == InitGc /\ [][NextGc]_vars

\* Restore, download and compare requests on stores left by earlier runs: two
\* completed backups of c1, each with or without its local file and its object
\* (a backup with neither has lost its file outside the program).
InitReadStores ==
    {[backups |-> (-2 :> StoredBackup(-2, "c1", "shop", "completed", -2,
                                       IF key2 THEN StoredKey("c1", "shop", -2)
                                       ELSE NoKey))
                  @@ (-1 :> StoredBackup(-1, "c1", "shop", "completed", -1,
                                         IF key1 THEN StoredKey("c1", "shop", -1)
                                         ELSE NoKey)),
      files |-> (IF file2 THEN {StoredPath("c1", "shop", -2)} ELSE {})
                  \cup (IF file1 THEN {StoredPath("c1", "shop", -1)} ELSE {}),
      objects |-> (IF key2 THEN {StoredKey("c1", "shop", -2)} ELSE {})
                  \cup (IF key1 THEN {StoredKey("c1", "shop", -1)} ELSE {})] :
        key2 \in BOOLEAN, file2 \in BOOLEAN, key1 \in BOOLEAN, file1 \in BOOLEAN}

InitRead ==
    /\ clock = 0
    /\ \E s \in InitReadStores :
          /\ backups = s.backups
          /\ files = s.files
          /\ objects = s.objects
    /\ nextBackupId = 1
    /\ notifications = << >>
    /\ ret = NoRet
    /\ InitIdle(MaxRacingFirings)
    /\ connections = [c \in {"c1"} |-> InitConnections[c]]
    /\ settings \in GcSettingsInputs
    /\ schedules = << >>
    /\ nextScheduleId = 1
    /\ started = TRUE

NextRead ==
    \/ \E id \in DOMAIN backups, cid \in DOMAIN connections, o \in EnsureOutcomes,
          rm \in {"ok", "err"}, run \in RestoreRuns :
         RestoreBackup(SessionUser, id, cid, o, rm, run)
    \/ \E id \in DOMAIN backups, o \in EnsureOutcomes, rm \in {"ok", "err"},
          exit \in DownloadExits :
         DownloadBackup(SessionUser, id, o, rm, exit)
    \/ \E sourceID \in DOMAIN backups, targetID \in DOMAIN backups,
          o1 \in EnsureOutcomes, o2 \in EnsureOutcomes, rm \in {"ok", "err"},
          exit \in CompareExits :
         CompareBackups(SessionUser, sourceID, targetID, o1, o2, rm, exit)

SpecRead == InitRead /\ [][NextRead]_vars

\* Firings and on-demand backups of both connections: the process starts on
\* one enabled schedule, of c1 or of c2; S3 is off.
InitStamp ==
    /\ InitStores
    /\ InitIdle(MaxFirings)
    /\ connections = InitConnections
    /\ settings \in {s \in SettingsInputs : ~s.S3Enabled /\ ~s.S3PurgeLocal}
    /\ \E cid \in ConnectionIds, nx \in {NoTime, 0}, rd \in {0, 1} :
          schedules = (1 :> [connection_id |-> cid, enabled |-> TRUE,
                             cron_schedule |-> "every1", retention_days |-> rd,
                             next_run_time |-> nx, last_backup_time |-> NoTime,
                             created_at |-> 0])
    /\ nextScheduleId = 2
    /\ started = FALSE

NextStamp ==
    \/ Tick
    \/ \E o \in {"ok", "err"} : recoverSchedules(o)
    \/ \E e \in DOMAIN cronJobs : CronFire(e)
    \/ \E cid \in DOMAIN connections, pre \in {"ok", "conn_err"} :
         \E os \in [1..DumpCount(cid) -> SchedDumpOutcomes] : CreateBackup(cid, pre, os)
    \/ NextFirings({"ok", "conn_err"}, SchedDumpOutcomes, {"ok", "err"}, {"ok"},
                   {OkGcOutcome})

SpecStamp == InitStamp /\ [][NextStamp]_vars

\* The connection names of the rename requests: one contains another, two are
\* the same once sanitized.
FolderNames == {<<"p", "g">>, <<"p", "g", "a">>, <<"m", " ">>, <<"m", "_">>}

\* S3PathPrefix settings as strings: none, one apart from every name, one that
\* contains a sanitized name.
FolderPrefixes == {<< >>, <<"b">>, <<"a", "p", "g">>}

\* The file names of the stored dumps, as strings.
StoredFile(id) == IF id = -2 THEN <<"a", ".">> ELSE <<"b", ".">>

\* Stores left by earlier backups of c1 under the name "pg": the older backup
\* was uploaded, the newer one was uploaded or not, and its object may have
\* been removed from the bucket since.
InitFolderStores(prefix) ==
    LET key(id) == objectKeyString(prefix, StoredFile(id),
                                   SanitizeConnectionName(InitConnections["c1"].name))
    IN  {[backups |-> (-2 :> StoredBackup(-2, "c1", "shop", "completed", -2, key(-2)))
                      @@ (-1 :> StoredBackup(-1, "c1", "shop", "completed", -1,
                                             IF up THEN key(-1) ELSE NoKey)),
          objects |-> {key(-2)} \cup (IF up /\ there THEN {key(-1)} ELSE {})] :
            up \in BOOLEAN, there \in BOOLEAN}

\* The S3 settings of the owner, the path prefix as a string.
FolderSettingsInputs ==
    {[s EXCEPT !.S3PathPrefix = prefix] :
        s \in SchedSettingsInputs \cup {t \in SettingsInputs : ~t.S3Enabled /\ ~t.S3PurgeLocal
                                                               /\ t.S3PathPrefix = ""},
        prefix \in FolderPrefixes}

InitRename ==
    /\ clock = 0
    /\ settings \in FolderSettingsInputs
    /\ \E s \in InitFolderStores(settings.S3PathPrefix) :
          /\ backups = s.backups
          /\ objects = s.objects
    /\ files = {}
    /\ nextBackupId = 1
    /\ notifications = << >>
    /\ ret = NoRet
    /\ InitIdle(MaxRacingFirings)
    /\ connections = [c \in {"c1"} |-> InitConnections[c]]
    /\ schedules = << >>
    /\ nextScheduleId = 1
    /\ started = TRUE

NextRename ==
    \E cid \in DOMAIN connections, oldName \in FolderNames, newName \in FolderNames,
       pre \in FolderPreOutcomes :
      \E os \in [GetBackupsByConnectionID(backups, cid) -> MoveOutcomes] :
         RenameCall(cid, oldName, newName, pre, os)

SpecRename == InitRename /\ [][NextRename]_vars

\* Update and delete requests on connection c1 and its stored backups.
NextConn ==
    \/ \E id \in {"c1"}, cleanupS3 \in BOOLEAN, pre \in FolderPreOutcomes,
          own \in {"ok", "delete_err"} :
         \E os \in [GetBackupsByConnectionID(backups, id) -> DeleteOutcomes] :
            DeleteConnection(id, cleanupS3, pre, os, own)
    \/ \E id \in {"c1"}, name \in FolderNames, own \in UpdateOwnOutcomes,
          pre \in FolderPreOutcomes :
         \E os \in [GetBackupsByConnectionID(backups, id) -> MoveOutcomes] :
            UpdateConnection(id, name, InitSecretsOf, "nil", own, pre, os)

SpecConn == InitRename /\ [][NextConn]_vars

\* Connection c1 with any secrets and either cleanup flag stored, S3 off; c2 is
\* yet to be saved.
InitSecrets ==
    /\ clock = 0
    /\ settings \in {s \in FolderSettingsInputs : ~s.S3Enabled /\ s.S3PathPrefix = << >>}
    /\ \E s \in InitFolderStores(settings.S3PathPrefix) :
          /\ backups = s.backups
          /\ objects = s.objects
    /\ files = {}
    /\ nextBackupId = 1
    /\ notifications = << >>
    /\ ret = NoRet
    /\ InitIdle(MaxRacingFirings)
    /\ \E secrets \in SecretInputs, flag \in BOOLEAN :
          connections = [c \in {"c1"} |->
                            repoUpdate(InitConnections[c],
                                       [storedConnOf(c, InitConnections[c].name, secrets)
                                           EXCEPT !.s3cleanup = flag])]
    /\ schedules = << >>
    /\ nextScheduleId = 1
    /\ started = TRUE

\* Get, save and update requests on connections.
NextSecrets ==
    \/ \E id \in ConnectionIds, o \in {"ok", "err"} : GetConnection(id, o)
    \/ \E id \in ConnectionIds, name \in {<<"m", "_">>}, secrets \in SecretInputs,
          o \in SaveOutcomes :
         SaveConnection(id, name, secrets, o)
    \/ \E id \in ConnectionIds, name \in {<<"p", "g">>, <<"p", "g", "a">>},
          secrets \in SecretInputs, flag \in {"nil", "true", "false"},
          own \in UpdateOwnOutcomes :
         \E os \in [GetBackupsByConnectionID(backups, id) -> {OkMove}] :
            UpdateConnection(id, name, secrets, flag, own, "ok", os)

SpecSecrets == InitSecrets /\ [][NextSecrets]_vars

\* What a restore tool may print: nothing, an error, an error about an object
\* that exists, an error set aside as a privilege problem, a warning, and an
\* error next to one that is also a notice.
RestoreOutputs ==
    {<< >>, << {"ERROR:"} >>, << {"ERROR:", "already exists"} >>,
     << {"ERROR:", "no privileges"} >>, << {"WARNING:"} >>,
     << {"ERROR:"}, {"ERROR:", "NOTICE:"} >>}

RestoreRunInputs ==
    [tunnel : {"ok", "err"}, tool : {"found", "missing"}, cmdErr : BOOLEAN,
     output : RestoreOutputs]

\* The stores two earlier backups left, one of c1 and one of c2, their files
\* in place; S3 is off.
InitRestoreStores ==
    /\ clock = 0
    /\ backups = (-2 :> StoredBackup(-2, "c1", "shop", "completed", -2, NoKey))
                   @@ (-1 :> StoredBackup(-1, "c2", "a", "completed", -1, NoKey))
    /\ files = {StoredPath("c1", "shop", -2), StoredPath("c2", "a", -1)}
    /\ objects = {}
    /\ nextBackupId = 1
    /\ notifications = << >>
    /\ ret = NoRet
    /\ InitIdle(MaxRacingFirings)
    /\ settings \in {s \in SettingsInputs : /\ ~s.S3Enabled /\ ~s.S3PurgeLocal
                                            /\ s.S3PathPrefix = ""}
    /\ schedules = << >>
    /\ nextScheduleId = 1
    /\ started = TRUE

\* Restores into connections of every engine, with and without SSH.
InitRestore ==
    /\ InitRestoreStores
    /\ \E type \in [ConnectionIds -> Engines], ssh \in BOOLEAN :
          connections = [c \in ConnectionIds |->
                            [InitConnections[c] EXCEPT !.type = type[c], !.ssh = ssh]]

NextRestore ==
    \E id \in DOMAIN backups, cid \in DOMAIN connections, run \in RestoreRunInputs :
       RestoreBackup(SessionUser, id, cid, "ok", "ok", run)

SpecRestore == InitRestore /\ [][NextRestore]_vars

\* The runs of a restore whose tool prints nothing.
QuietRunInputs == {run \in RestoreRunInputs : run.output = << >>}

\* Dumps that succeed, lack their tool, fail, or are not saved.
TunnelDumpOutcomes ==
    {OkOutcome, [OkOutcome EXCEPT !.cmd = "nil"], [OkOutcome EXCEPT !.cmd = "dump_err"],
     [OkOutcome EXCEPT !.save = "err", !.size = 0]}

\* On-demand backups and restores over connections with and without SSH.
InitTunnel ==
    /\ InitRestoreStores
    /\ \E ssh \in [ConnectionIds -> BOOLEAN] :
          connections = [c \in ConnectionIds |-> [InitConnections[c] EXCEPT !.ssh = ssh[c]]]

NextTunnel ==
    \/ \E id \in DOMAIN backups, cid \in DOMAIN connections, run \in QuietRunInputs :
         RestoreBackup(SessionUser, id, cid, "ok", "ok", run)
    \/ \E cid \in DOMAIN connections, pre \in PreOutcomes :
         \E os \in [1..DumpCount(cid) -> TunnelDumpOutcomes] : CreateBackup(cid, pre, os)

SpecTunnel == InitTunnel /\ [][NextTunnel]_vars

\* The longest output given to a validator, in lines.
MaxLines == 2

\* Every output of at most MaxLines lines.
ValidatorOutputs == UNION {[1..n -> SUBSET Patterns] : n \in 0..MaxLines}

\* One call of validatePostgreSQLRestore in a run, on any output and exit
\* status.
ValidatePostgreSQL(output, cmdErr) ==
    /\ ret = NoRet
    /\ ret' = [op |-> "validatePostgreSQLRestore", output |-> output, cmdErr |-> cmdErr,
               result |-> validatePostgreSQLRestore(output, cmdErr)]
    /\ UNCHANGED << clock, envVars, storeVars, schedVars >>

InitValidate ==
    /\ InitRestoreStores
    /\ connections = InitConnections

NextValidate ==
    \E output \in ValidatorOutputs, cmdErr \in BOOLEAN : ValidatePostgreSQL(output, cmdErr)

SpecValidate == InitValidate /\ [][NextValidate]_vars

\* ------------------------------------------------------------ user settings
\* A *string of UserSettings or of a request: Nil, or the text it points to,
\* marked as a ciphertext of the vault or as plain text.
Nil == << >>

Ptr(text) == << "plain", text >>

\* os.Getenv("SMTP_PASSWORD"): unset, or a password.
EnvInputs == {"", "e"}

\* SettingsService.applyDefaults, for the password: the environment takes
\* precedence over the stored value.
applyDefaults(row, env) ==
    IF env # "" THEN [row EXCEPT !.SMTPPassword = Ptr(env)] ELSE row

\* A faulty blanking: the SMTP password is left in place.
blankS3SecretOnly(row) == [row EXCEPT !.S3SecretKey = Nil]

\* settings.SMTPPassword = nil; settings.S3SecretKey = nil
blankSecrets(row) == [row EXCEPT !.SMTPPassword = Nil, !.S3SecretKey = Nil]

\* The body of a settings response that failed.
NoSettings == [failed |-> TRUE]

\* SettingsService.GetUserSettings: the row, the environment applied, the
\* secrets removed.
GetUserSettings(env, o) ==
    /\ clock < MaxClock
    /\ ret' = [op |-> "GetUserSettings", env |-> env, failed |-> o # "ok",
               body |-> IF o = "ok" THEN blankSecrets(applyDefaults(settings, env))
                        ELSE NoSettings]
    /\ clock' = clock + 1
    /\ UNCHANGED << envVars, storeVars, schedVars >>

\* SettingsService.GetUserSettingsInternal: the row with the environment
\* applied, the secrets in place.
GetUserSettingsInternal(env, o) ==
    /\ clock < MaxClock
    /\ ret' = [op |-> "GetUserSettingsInternal", env |-> env, failed |-> o # "ok",
               body |-> IF o = "ok" THEN applyDefaults(settings, env) ELSE NoSettings]
    /\ clock' = clock + 1
    /\ UNCHANGED << envVars, storeVars, schedVars >>

\* The fields of an UpdateSettingsRequest that are followed here: the two
\* switches ("nil" when not sent) and the two secrets.
UpdateSettingsRequests ==
    [S3Enabled : {"nil", "true", "false"}, S3PurgeLocal : {"nil", "true"},
     SMTPPassword : {Nil, Ptr(""), Ptr("n")}, S3SecretKey : {Nil, Ptr("n")}]

\* The row UpdateUserSettings writes: a field is replaced when the request
\* sends it, the SMTP password unless the environment sets one, and both
\* secrets are encrypted on the way.
updatedSettings(row, req, env) ==
    [row EXCEPT
        !.S3Enabled = IF req.S3Enabled = "nil" THEN @ ELSE req.S3Enabled = "true",
        !.S3PurgeLocal = IF req.S3PurgeLocal = "nil" THEN @ ELSE req.S3PurgeLocal = "true",
        !.SMTPPassword = IF req.SMTPPassword # Nil /\ env = ""
                         THEN Encrypt(req.SMTPPassword[2]) ELSE @,
        !.S3SecretKey = IF req.S3SecretKey # Nil THEN Encrypt(req.S3SecretKey[2]) ELSE @]

\* The steps of UpdateUserSettings: the read of the row, Encrypt, the write.
UpdateSettingsOutcomes == {"ok", "get_err", "encrypt_err", "update_err"}

\* SettingsService.UpdateUserSettings
UpdateUserSettings(req, env, o) ==
    /\ clock < MaxClock
    /\ LET encrypts == (req.SMTPPassword # Nil /\ env = "") \/ req.S3SecretKey # Nil
           effective == IF o = "encrypt_err" /\ ~encrypts THEN "ok" ELSE o
           row == updatedSettings(settings, req, env)
       IN  /\ settings' = IF effective = "ok" THEN row ELSE settings
           /\ ret' = [op |-> "UpdateUserSettings", env |-> env,
                      failed |-> effective # "ok",
                      body |-> IF effective = "ok" THEN blankSecrets(row) ELSE NoSettings]
    /\ clock' = clock + 1
    /\ UNCHANGED << connections, storeVars, schedVars >>

\* The settings row of the owner with any secrets stored, S3 on or off.
InitSettingsRow ==
    /\ clock = 0
    /\ backups = << >>
    /\ files = {}
    /\ objects = {}
    /\ nextBackupId = 1
    /\ notifications = << >>
    /\ ret = NoRet
    /\ InitIdle(MaxRacingFirings)
    /\ connections = InitConnections
    /\ schedules = << >>
    /\ nextScheduleId = 1
    /\ started = TRUE
    /\ \E s \in {t \in SettingsInputs : t.S3PathPrefix = "" /\ t.S3SecretKey # ""},
          smtp \in {Nil, Encrypt("x")}, s3 \in {Nil, Encrypt("s")} :
          settings = [s EXCEPT !.S3SecretKey = s3] @@ [SMTPPassword |-> smtp]

NextSettings ==
    \/ \E env \in EnvInputs, o \in {"ok", "get_err"} : GetUserSettings(env, o)
    \/ \E env \in EnvInputs, o \in {"ok", "get_err"} : GetUserSettingsInternal(env, o)
    \/ \E req \in UpdateSettingsRequests, env \in EnvInputs, o \in UpdateSettingsOutcomes :
         UpdateUserSettings(req, env, o)

SpecSettings == InitSettingsRow /\ [][NextSettings]_vars

\* A connection with an enabled schedule is deleted while the process runs:
\* the job recoverSchedules registered, its firings, and the delete request.
InitDrop ==
    /\ InitStores
    /\ InitIdle(MaxRacingFirings)
    /\ connections = [c \in {"c1"} |-> InitConnections[c]]
    /\ settings \in {s \in SettingsInputs : ~s.S3Enabled /\ ~s.S3PurgeLocal}
    /\ schedules \in {t \in InitScheduleTables : \A id \in DOMAIN t : t[id].enabled}
    /\ nextScheduleId = Cardinality(DOMAIN schedules) + 1
    /\ started = FALSE

NextDrop ==
    \/ Tick
    \/ \E o \in {"ok", "err"} : recoverSchedules(o)
    \/ \E e \in DOMAIN cronJobs : CronFire(e)
    \/ NextFirings({"ok"}, {OkOutcome}, {"ok"}, {"ok"}, {OkGcOutcome})
    \/ \E id \in ConnectionIds, cleanupS3 \in BOOLEAN, own \in {"ok", "delete_err"} :
         \E os \in [GetBackupsByConnectionID(backups, id) -> {"ok"}] :
            /\ started
            /\ DeleteConnection(id, cleanupS3, "ok", os, own)

SpecDrop == InitDrop /\ [][NextDrop]_vars

\* ------------------------------------------- concurrent reads of backups
\* Restore, download and compare requests are served by one goroutine each and
\* share the temp folder.  A request in flight holds the backups it asked for
\* and the files it obtained so far: the path, is_temp, and whether the file
\* still has the content this request's download wrote.
ReadOps == {"RestoreBackup", "DownloadBackup", "CompareBackups"}

ReadSlot(op, ids) == [pc |-> "ensure", op |-> op, ids |-> ids, got |-> << >>]

\* The backups a request names: one, or for a comparison source and target.
ReadRequests(op, table) ==
    IF op = "CompareBackups"
    THEN {<< s, t >> : s \in DOMAIN table, t \in DOMAIN table}
    ELSE {<< id >> : id \in DOMAIN table}

\* A request arrives: the handler reads the backup records.
BeginRead(op, ids) ==
    /\ FreeSlots(calls) # {}
    /\ ids \in ReadRequests(op, backups)
    /\ calls' = [calls EXCEPT ![FreeSlot(calls)] = ReadSlot(op, ids)]
    /\ ret' = NoRet
    /\ UNCHANGED << clock, envVars, storeVars, tableVars, cronVars, firings,
                    notifications >>

\* os.Create(path) by request self, downloading backup id, truncates the file
\* and writes it again: another request that holds path loses the content it
\* is reading, and so does the request itself unless what it held was a
\* download of the same backup.
overwriteHeld(slots, self, id, path) ==
    [s \in DOMAIN slots |->
        IF slots[s].pc \in {"ensure", "use"}
        THEN [slots[s] EXCEPT !.got =
                 [i \in DOMAIN slots[s].got |->
                     IF /\ slots[s].got[i].path = path
                        /\ (s # self \/ slots[s].ids[i] # id)
                     THEN [slots[s].got[i] EXCEPT !.intact = FALSE]
                     ELSE slots[s].got[i]]]
        ELSE slots[s]]

\* Whether ensureBackupFileAvailable gets as far as os.Create on the temp path.
createsTemp(fs, bucket, backup, st, o) ==
    tempFilePath(backup.path)
        \in ensureBackupFileAvailable(fs \ {tempFilePath(backup.path)}, bucket, backup,
                                      st, o).files

\* The next ensureBackupFileAvailable of a request; on its error the request
\* returns, and no deferred os.Remove is registered yet.
EnsureStep(slot, o) ==
    /\ calls[slot].pc = "ensure"
    /\ LET call == calls[slot]
           id == call.ids[Len(call.got) + 1]
           backup == backups[id]
           r == ensureBackupFileAvailable(files, objects, backup, settings, o)
           after == IF createsTemp(files, objects, backup, settings, o)
                    THEN overwriteHeld(calls, slot, id, tempFilePath(backup.path))
                    ELSE calls
           got == Append(after[slot].got,
                         [path |-> r.path, isTemp |-> r.isTemp, intact |-> TRUE])
       IN  /\ files' = r.files
           /\ IF r.err
              THEN /\ calls' = [after EXCEPT ![slot] = DoneSlot]
                   /\ ret' = [op |-> call.op, exit |-> "ensure_err", removed |-> {}]
              ELSE /\ calls' = [after EXCEPT ![slot] =
                                  [call EXCEPT !.got = got,
                                               !.pc = IF Len(got) = Len(call.ids)
                                                      THEN "use" ELSE "ensure"]]
                   /\ ret' = NoRet
    /\ UNCHANGED << clock, envVars, objects, backups, nextBackupId, tableVars, cronVars,
                    firings, notifications >>

\* The temp files a request holds.
heldTemps(call) == {call.got[i].path : i \in {j \in DOMAIN call.got : call.got[j].isTemp}}

\* The request has used its files and returns: the deferred os.Remove of each
\* temp file runs.
FinishRead(slot, rm) ==
    /\ calls[slot].pc = "use"
    /\ files' = IF rm = "ok" THEN files \ heldTemps(calls[slot]) ELSE files
    /\ ret' = [op |-> calls[slot].op, exit |-> "returned",
               removed |-> IF rm = "ok" THEN heldTemps(calls[slot]) ELSE {}]
    /\ calls' = [calls EXCEPT ![slot] = DoneSlot]
    /\ UNCHANGED << clock, envVars, objects, backups, nextBackupId, tableVars, cronVars,
                    firings, notifications >>

\* Stores left by earlier runs: a completed backup of c1 and a second one,
\* either a later backup of c1 or a backup of c2 of the same database and
\* second, whose dump file has the same base name.
InitTempStores ==
    {[backups |-> (-2 :> StoredBackup(-2, "c1", "shop", "completed", -2,
                                       IF key2 THEN StoredKey("c1", "shop", -2)
                                       ELSE NoKey))
                  @@ (-1 :> StoredBackup(-1, other.conn, "shop", "completed", other.at,
                                         IF key1
                                         THEN StoredKey(other.conn, "shop", other.at)
                                         ELSE NoKey)),
      files |-> (IF file2 THEN {StoredPath("c1", "shop", -2)} ELSE {})
                  \cup (IF file1 THEN {StoredPath(other.conn, "shop", other.at)} ELSE {}),
      objects |-> (IF key2 THEN {StoredKey("c1", "shop", -2)} ELSE {})
                  \cup (IF key1 THEN {StoredKey(other.conn, "shop", other.at)} ELSE {})] :
        key2 \in BOOLEAN, file2 \in BOOLEAN, key1 \in BOOLEAN, file1 \in BOOLEAN,
        other \in {[conn |-> "c1", at |-> -1], [conn |-> "c2", at |-> -2]}}

InitTemp ==
    /\ clock = 0
    /\ \E s \in InitTempStores :
          /\ backups = s.backups
          /\ files = s.files
          /\ objects = s.objects
    /\ nextBackupId = 1
    /\ notifications = << >>
    /\ ret = NoRet
    /\ InitIdle(MaxRacingFirings)
    /\ connections = InitConnections
    /\ settings \in GcSettingsInputs
    /\ schedules = << >>
    /\ nextScheduleId = 1
    /\ started = TRUE

NextTemp ==
    \/ \E op \in ReadOps : \E ids \in ReadRequests(op, backups) : BeginRead(op, ids)
    \/ \E slot \in DOMAIN calls, o \in EnsureOutcomes : EnsureStep(slot, o)
    \/ \E slot \in DOMAIN calls, rm \in {"ok", "err"} : FinishRead(slot, rm)

SpecTemp == InitTemp /\ [][NextTemp]_vars

\* ------------------------------------------------ whose backup a request reads
\* BackupHandler.GetBackup: the record of the id; the session is not looked at.
GetBackup(userID, id, o) ==
    /\ clock < MaxClock
    /\ ret' = [op |-> "GetBackup", user |-> userID, id |-> id,
               err |-> o # "ok" \/ id \notin DOMAIN backups,
               body |-> IF o = "ok" /\ id \in DOMAIN backups
                        THEN << backups[id] >> ELSE << >>]
    /\ clock' = clock + 1
    /\ UNCHANGED << envVars, storeVars, schedVars >>

\* BackupRepository.GetAllBackupsWithPagination without a search or status
\* filter: the backups joined to a connection WHERE c.user_id = $1.
GetAllBackupsWithPagination(table, conns, userID) ==
    {id \in DOMAIN table : /\ table[id].connection_id \in DOMAIN conns
                           /\ UserOf(table[id].connection_id) = userID}

\* BackupHandler.ListBackups, all rows fitting the first page.
ListBackups(userID, o) ==
    /\ clock < MaxClock
    /\ ret' = [op |-> "ListBackups", user |-> userID, err |-> o # "ok",
               ids |-> IF o = "ok"
                       THEN GetAllBackupsWithPagination(backups, connections, userID)
                       ELSE {}]
    /\ clock' = clock + 1
    /\ UNCHANGED << envVars, storeVars, schedVars >>

\* The run of a restore whose tool is found and exits with 0, printing nothing.
CleanRun == [tunnel |-> "ok", tool |-> "found", cmdErr |-> FALSE, output |-> << >>]

\* Requests of both users on the backups of c1 (of u1) and c2 (of u2); the
\* settings row stands for the row of the user who asks.
NextOwner ==
    \/ \E userID \in Users, id \in DOMAIN backups, o \in {"ok", "err"} :
         GetBackup(userID, id, o)
    \/ \E userID \in Users, o \in {"ok", "err"} : ListBackups(userID, o)
    \/ \E userID \in Users, id \in DOMAIN backups, o \in {"ok", "get_err"} :
         DownloadBackup(userID, id, o, "ok", "ok")
    \/ \E userID \in Users, sourceID \in DOMAIN backups, targetID \in DOMAIN backups,
          o \in {"ok", "get_err"} :
         CompareBackups(userID, sourceID, targetID, o, o, "ok", "ok")
    \/ \E userID \in Users, id \in DOMAIN backups, cid \in DOMAIN connections,
          o \in {"ok", "get_err"} :
         RestoreBackup(userID, id, cid, o, "ok", CleanRun)

SpecOwner == InitTemp /\ [][NextOwner]_vars

\* ------------------------------------------------------------- properties
\* The dumps of the CreateBackup call that has just returned, and the ones of
\* them whose record was saved.
ReturnedDumps ==
    IF ret.op = "CreateBackup" THEN {ret.subs[i] : i \in DOMAIN ret.subs} ELSE {}

ReturnedBackups == {b \in ReturnedDumps : b.saved}

PurgeOn == settings.S3Enabled /\ settings.S3PurgeLocal

C2_PurgeOnlyAfterAck ==
    \A b \in ReturnedDumps :
        /\ b.rmTried => b.acked /\ b.key \in objects
        /\ b.removed => b.rmTried
        /\ (b.dumped /\ b.path \notin files) => b.acked /\ b.key \in objects
        /\ (b.dumped /\ (~S3Configured(settings) \/ b.s3err)) =>
               ~b.rmTried /\ b.path \in files

\* A multi-database run in which one sub-dump was uploaded and purged and
\* another kept its file because its upload failed.
C2_Witness ==
    /\ ret.op = "CreateBackup"
    /\ \E b \in ReturnedDumps, c \in ReturnedDumps :
          /\ b.removed /\ b.path \notin files
          /\ c.dumped /\ c.s3err /\ c.path \in files

\* C3: when the dump succeeded and the S3 step failed (settings lookup, a
\* missing field, decryption, client or bucket, PutObject), the S3 failure does
\* not fail the backup: the record insert is still attempted, and unless the
\* insert itself fails the record is saved with status completed and no S3
\* key, the local file is still there, and a single-database call returns that
\* record without error.
C3_S3FailureKeepsBackup ==
    \A b \in ReturnedDumps :
        (b.dumped /\ b.s3err) =>
            /\ b.insert \in {"ok", "err"}
            /\ b.saved <=> b.insert = "ok"
            /\ b.path \in files
            /\ b.saved =>
                  /\ b.id \in DOMAIN backups
                  /\ backups[b.id].status = "completed"
                  /\ backups[b.id].s3_object_key = NoKey
                  /\ Len(ret.subs) = 1 => ~ret.err /\ ret.id = b.id

\* A call that returned its backup although PutObject failed.
C3_Witness ==
    /\ ret.op = "CreateBackup" /\ ~ret.err /\ settings.S3Enabled
    /\ \E b \in ReturnedBackups :
          /\ b.s3err /\ ret.id = b.id
          /\ backups[b.id].status = "completed" /\ b.path \in files
\* C4 as stated: every persisted backup record with status completed has
\* completed_at >= started_at, size >= 0, and its local file exists or its S3
\* key is set.
C4_CompletedBackupsAvailable ==
    \A id \in DOMAIN backups :
        backups[id].status = "completed" =>
            /\ backups[id].completed_time >= backups[id].started_time
            /\ backups[id].size >= 0
            /\ backups[id].path \in files \/ backups[id].s3_object_key # NoKey

\* C5 as stated: no connection has more than one schedule record with
\* enabled = true.
C5_AtMostOneEnabled ==
    \A c \in DOMAIN connections :
        Cardinality({id \in DOMAIN schedules :
                        schedules[id].connection_id = c /\ schedules[id].enabled}) <= 1

\* The firings in flight for schedule id.
RunsOf(id) == {slot \in DOMAIN firings : /\ firings[slot].pc # "idle"
                                          /\ firings[slot].schedule.id = id}

JobsOf(id) == {e \in DOMAIN cronJobs : cronJobs[e].schedule.id = id}

\* C6: when recoverSchedules returns, having read the schedules, an enabled
\* schedule has exactly one catch-up run if its next_run_time is set and
\* earlier than the bootstrap time, however far back, and none otherwise; a
\* disabled schedule has neither a run nor a registered job.
C6_OneCatchUp ==
    (ret.op = "recoverSchedules" /\ ret.fetched) =>
        \A id \in DOMAIN schedules :
            LET row == schedules[id]
                missed == row.next_run_time # NoTime /\ row.next_run_time < clock
            IN  IF row.enabled
                THEN Cardinality(RunsOf(id)) = IF missed THEN 1 ELSE 0
                ELSE /\ RunsOf(id) = {}
                     /\ JobsOf(id) = {}
                     /\ id \notin DOMAIN cronEntries

\* A bootstrap two ticks after the missed next_run_time: one catch-up run.
C6_Witness ==
    /\ ret.op = "recoverSchedules" /\ ret.fetched
    /\ clock = 2
    /\ \E id \in DOMAIN schedules :
          /\ schedules[id].enabled
          /\ schedules[id].next_run_time = 0
          /\ Cardinality(RunsOf(id)) = 1

\* C7: a firing goes backup -> stamp-or-notify -> schedule update -> retention
\* GC; a CreateBackup error does not cut it short; the schedule update, when
\* its write succeeds, leaves next_run_time = Next(cron_expr, now) and
\* last_backup_time = now in the record; GC follows iff retention_days > 0.
C7_FiringOrder ==
    [][\A slot \in DOMAIN firings :
          (firings[slot].pc # "idle" /\ firings'[slot] # firings[slot]) =>
              LET f == firings[slot]
                  g == firings'[slot]
                  id == f.schedule.id
              IN  /\ f.pc = "backup" => g.pc = "stamp"
                  /\ f.pc = "stamp" => g.pc = "update" /\ g.err = f.err
                  /\ f.pc = "update" =>
                        /\ g.pc = IF f.schedule.retention_days > 0 THEN "gc" ELSE "idle"
                        /\ ret'.op = "FiringUpdate"
                        /\ ret'.saved =>
                              /\ schedules'[id].next_run_time =
                                    NextTime(schedules'[id].cron_schedule, clock)
                              /\ schedules'[id].next_run_time > clock
                              /\ schedules'[id].last_backup_time = clock
                  /\ f.pc = "gc" => g.pc = "idle"]_vars

\* A firing whose backup failed has persisted its schedule and is about to run
\* the retention GC.
C7_Witness ==
    /\ ret.op = "FiringUpdate" /\ ret.saved
    /\ \E slot \in DOMAIN firings :
          /\ firings[slot].pc = "gc" /\ firings[slot].err
          /\ schedules[firings[slot].schedule.id].last_backup_time = clock
          /\ clock > 0

\* C8: the notification table grows only in the step after a firing's
\* CreateBackup returned an error, and then by one backup_failed row; the step
\* after a successful CreateBackup adds none; an on-demand CreateBackup adds
\* none.
C8_NotifyOnlyFailedFiring ==
    [][/\ notifications' # notifications =>
            /\ Len(notifications') = Len(notifications) + 1
            /\ notifications'[Len(notifications')].type = "backup_failed"
            /\ \E slot \in DOMAIN firings :
                  /\ firings[slot].pc = "stamp" /\ firings[slot].err
                  /\ firings'[slot].pc = "update"
                  /\ notifications'[Len(notifications')].connection_id =
                        firings[slot].schedule.connection_id
       /\ \A slot \in DOMAIN firings :
            (firings[slot].pc = "stamp" /\ ~firings[slot].err
                /\ firings'[slot] # firings[slot]) => notifications' = notifications
       /\ ret'.op = "CreateBackup" => notifications' = notifications]_vars

\* One notification exists, its firing has moved on, and an on-demand backup
\* has failed without adding one.
C8_Witness ==
    /\ Len(notifications) = 1
    /\ ret.op = "CreateBackup" /\ ret.err
    /\ \E slot \in DOMAIN firings : firings[slot].pc = "update" /\ firings[slot].err

\* C9 as stated: no two firings of one schedule are in flight together.
C9_FiringsSerialized ==
    \A id \in DOMAIN schedules : Cardinality(RunsOf(id)) <= 1

\* C10 as stated, in its weakest reading: a write over a set last_backup_time
\* stores a value at least as large.
C10_LastBackupTimeMonotonic ==
    [][\A id \in DOMAIN schedules :
          (schedules[id].last_backup_time # NoTime
              /\ schedules'[id].last_backup_time # NoTime) =>
              schedules'[id].last_backup_time >= schedules[id].last_backup_time]_vars

\* C11 as stated: under every interleaving of ScheduleBackup,
\* UpdateBackupSchedule and DisableBackupSchedule calls the engine holds at
\* most one job per schedule id, and every registered job is the one the
\* handle map records under its schedule id.
C11_JobsReachable ==
    /\ \A id \in DOMAIN schedules : Cardinality(JobsOf(id)) <= 1
    /\ \A e \in DOMAIN cronJobs :
          /\ cronJobs[e].schedule.id \in DOMAIN cronEntries
          /\ cronEntries[cronJobs[e].schedule.id] = e

\* The firings of schedule id among the slots, and whether the schedule is
\* switched off in the table, the handle map and the engine.
RunsIn(slots, id) == {slot \in DOMAIN slots : /\ slots[slot].pc # "idle"
                                                /\ slots[slot].schedule.id = id}

SwitchedOff(table, entries, jobs, id) ==
    /\ table[id].enabled = FALSE
    /\ id \notin DOMAIN entries
    /\ \A e \in DOMAIN jobs : jobs[e].schedule.id # id

\* C12 as stated: when DisableBackupSchedule returns success the schedule is
\* persisted with enabled = false, has no handle in the map and no job in the
\* engine; and from then on every step that is not a step of a ScheduleBackup or
\* UpdateBackupSchedule call leaves it so and starts no firing of it.
C12_DisabledStaysOff ==
    [][/\ (ret'.op = "DisableBackupSchedule" /\ ret'.err = "none") =>
             SwitchedOff(schedules', cronEntries', cronJobs', ret'.sid)
       /\ \A id \in DOMAIN schedules :
             (SwitchedOff(schedules, cronEntries, cronJobs, id) /\ calls' = calls) =>
                 /\ SwitchedOff(schedules', cronEntries', cronJobs', id)
                 /\ RunsIn(firings', id) \subseteq RunsIn(firings, id)]_vars

JobsIn(jobs, id) == {e \in DOMAIN jobs : jobs[e].schedule.id = id}

\* The fields ScheduleBackup sets on the record it writes.
Upserted(row, call) ==
    /\ row.connection_id = call.conn
    /\ row.enabled = TRUE
    /\ row.cron_schedule = call.cron
    /\ row.retention_days = call.retention
    /\ row.next_run_time = call.nextRun

\* C13: with schedule calls served one at a time, ScheduleBackup computes
\* next_run_time as Next(cron_expr, now); when a record of the connection
\* exists (enabled or not) its write keeps that record's id, sets enabled,
\* cron_expr, retention_days and next_run_time, and adds no record; when none
\* exists it adds exactly one enabled record; and when the call returns the
\* engine holds exactly one job of the schedule, a new one, recorded in the
\* handle map.
C13_ScheduleBackupUpserts ==
    [][\A slot \in DOMAIN calls :
          /\ (calls[slot].pc = "idle" /\ calls'[slot].pc = "write") =>
                (calls'[slot].op = "ScheduleBackup" =>
                    calls'[slot].nextRun = NextTime(calls'[slot].cron, clock))
          /\ (calls[slot].pc = "write" /\ calls'[slot].pc \in {"remove", "add"}) =>
                (calls[slot].op = "ScheduleBackup" =>
                    LET call == calls[slot]
                        mine == {id \in DOMAIN schedules :
                                    schedules[id].connection_id = call.conn}
                        id == calls'[slot].schedule.id
                    IN  /\ \A j \in DOMAIN schedules \ {id} : schedules'[j] = schedules[j]
                        /\ Upserted(schedules'[id], call)
                        /\ IF mine # {}
                           THEN id \in mine /\ DOMAIN schedules' = DOMAIN schedules
                           ELSE /\ id \notin DOMAIN schedules
                                /\ DOMAIN schedules' = DOMAIN schedules \cup {id})
          /\ (calls[slot].pc = "add" /\ calls'[slot].pc = "done") =>
                (calls[slot].op = "ScheduleBackup" =>
                    LET call == calls[slot]
                        id == call.schedule.id
                    IN  /\ schedules' = schedules
                        /\ id \in DOMAIN cronEntries'
                        /\ JobsIn(cronJobs', id) = {cronEntries'[id]}
                        /\ cronEntries'[id] \notin DOMAIN cronJobs
                        /\ cronJobs'[cronEntries'[id]].cron = call.cron
                        /\ \A e \in DOMAIN cronJobs :
                              cronJobs[e].schedule.id # id =>
                                  e \in DOMAIN cronJobs' /\ cronJobs'[e] = cronJobs[e])]_vars

\* ScheduleBackup has returned on a record that existed before the call (a
\* firing had stamped it): the record is still the only one, it is enabled and
\* carries the request's values, and one job is registered for it.
C13_Witness ==
    /\ ret.op = "ScheduleBackup" /\ ret.err = "none"
    /\ DOMAIN schedules = {ret.sid}
    /\ schedules[ret.sid].last_backup_time # NoTime
    /\ schedules[ret.sid].enabled
    /\ schedules[ret.sid].cron_schedule = "every2"
    /\ Cardinality(JobsIn(cronJobs, ret.sid)) = 1

\* C14: ScheduleBackup and UpdateBackupSchedule called with an invalid cron
\* expression return an error at the parse, before any write: the step leaves
\* the schedule records, the handle map and the engine's jobs as they were, and
\* no call carrying an invalid expression gets past the parse.
C14_BadCronChangesNothing ==
    [][/\ (ret'.op \in {"ScheduleBackup", "UpdateBackupSchedule"}
              /\ ret'.err = "bad_cron") =>
             /\ schedules' = schedules
             /\ cronEntries' = cronEntries
             /\ cronJobs' = cronJobs
             /\ calls' = calls
       /\ \A slot \in DOMAIN calls :
             calls'[slot].pc \in {"write", "remove", "add"} =>
                 (calls'[slot].op # "DisableBackupSchedule" => ParseOk(calls'[slot].cron))]_vars

\* UpdateBackupSchedule has rejected an invalid expression for a schedule that
\* has a record and a registered job.
C14_Witness ==
    /\ ret.op = "UpdateBackupSchedule" /\ ret.err = "bad_cron"
    /\ ret.sid \in DOMAIN schedules
    /\ ret.sid \in DOMAIN cronEntries
    /\ JobsIn(cronJobs, ret.sid) # {}

\* C15: a run of the retention GC for (connection, retention_days) removes a
\* record, a local file or an S3 object only of backups of that connection
\* with status completed and created_at before now - retention_days; every
\* other record (in_progress or failed, newer than the cutoff, or of another
\* connection; among them the backup the same firing has just made) is left as
\* it was, with its file and its object.
C15_GcOnlyExpired ==
    [][ret'.op = "cleanupOldBackups" =>
          LET expired == {id \in DOMAIN backups :
                             /\ backups[id].connection_id = ret'.conn
                             /\ backups[id].status = "completed"
                             /\ backups[id].created_at < ret'.cutoff}
          IN  /\ \A id \in DOMAIN backups \ expired :
                    /\ id \in DOMAIN backups' /\ backups'[id] = backups[id]
                    /\ backups[id].path \in files => backups[id].path \in files'
                    /\ backups[id].s3_object_key \in objects =>
                           backups[id].s3_object_key \in objects'
              /\ DOMAIN backups \ DOMAIN backups' \subseteq expired
              /\ files \ files' \subseteq {backups[id].path : id \in expired}
              /\ objects \ objects' \subseteq {backups[id].s3_object_key : id \in expired}
              /\ ret'.bid \in DOMAIN backups \ expired => ret'.bid \in DOMAIN backups']_vars

\* A GC run has removed the old completed backup of c1 and left an
\* in_progress record of c1 that is just as old, and the backup its own firing
\* made.
C15_Witness ==
    /\ ret.op = "cleanupOldBackups"
    /\ \E it \in ret.items : it.id = -2 /\ -2 \notin DOMAIN backups
    /\ -1 \in DOMAIN backups
    /\ backups[-1].status = "in_progress"
    /\ backups[-1].connection_id = ret.conn
    /\ backups[-1].created_at < ret.cutoff
    /\ ret.bid \in DOMAIN backups

\* C16 as stated: for each expired backup the GC goes through, DeleteFile is
\* called iff the backup has an S3 key, S3 is enabled and fully configured and
\* the connection's s3_cleanup_on_retention is true; with the flag false (and
\* the file and record deletes succeeding) the local file and the record are
\* deleted and the object is still there.
C16_S3DeleteIffConfigured ==
    [][ret'.op = "cleanupOldBackups" =>
          \A it \in ret'.items :
              /\ it.s3del <=> /\ it.key # NoKey
                              /\ S3Configured(settings)
                              /\ connections[ret'.conn].s3cleanup
              /\ (~connections[ret'.conn].s3cleanup
                     /\ it.o.remove = "ok" /\ it.o.del = "ok") =>
                    /\ it.path \notin files'
                    /\ it.id \notin DOMAIN backups'
                    /\ it.key \in objects => it.key \in objects']_vars

\* C16 amended: DeleteFile is called iff the backup has an S3 key, the S3
\* client could be built (which needs S3 enabled and fully configured) and the
\* connection's flag is true; with the flag false no object is deleted, and the
\* local file and the record are deleted unless their own delete step fails.
C16_S3DeleteIffClientAndFlag ==
    [][ret'.op = "cleanupOldBackups" =>
          /\ ret'.client => S3Configured(settings)
          /\ \A it \in ret'.items :
                /\ it.s3del <=> /\ it.key # NoKey
                                /\ ret'.client
                                /\ connections[ret'.conn].s3cleanup
                /\ ~it.s3del => (it.key \in objects => it.key \in objects')
                /\ ~connections[ret'.conn].s3cleanup =>
                      /\ objects' = objects
                      /\ it.o.remove = "ok" => it.path \notin files'
                      /\ it.o.del = "ok" => it.id \notin DOMAIN backups']_vars

\* With the flag off and the S3 client built, a GC run has deleted the record
\* and the file of a backup whose object is still in the bucket.
C16_Witness ==
    /\ ret.op = "cleanupOldBackups" /\ ret.client
    /\ ~connections[ret.conn].s3cleanup
    /\ \E it \in ret.items :
          /\ it.key # NoKey /\ it.key \in objects
          /\ it.id \notin DOMAIN backups
          /\ it.path \notin files
\* C17: ensureBackupFileAvailable returns the local path, not temporary and
\* without contacting S3, whenever the local file exists; otherwise, when the
\* key is set, S3 is enabled and configured and the download succeeds, it
\* returns the temp path built from the base name, marked temporary; in every
\* other case it returns an error and no path.
C17_EnsureContract ==
    [][\A i \in DOMAIN ret'.results :
         LET e == ret'.results[i]
             b == backups[e.id]
         IN  IF e.local
             THEN ~e.err /\ e.path = b.path /\ ~e.isTemp /\ ~e.s3
             ELSE IF /\ b.s3_object_key # NoKey
                     /\ S3Configured(settings)
                     /\ e.o = "ok"
                     /\ b.s3_object_key \in objects
                  THEN ~e.err /\ e.isTemp /\ e.path = << TempDir >> \o Base(b.path)
                  ELSE e.err /\ e.path = NoPath /\ ~e.isTemp]_vars

\* A backup whose local file is gone was fetched from S3 to the temp folder.
C17_Witness ==
    /\ ret # NoRet
    /\ ret.op = "RestoreBackup"
    /\ ~ret.results[1].local
    /\ ret.results[1].isTemp
    /\ ret.results[1].path = << TempDir >> \o Base(backups[ret.results[1].id].path)

\* C18: when RestoreBackup, DownloadBackup or CompareBackups returns, every
\* file ensureBackupFileAvailable returned to it has been deleted iff it was
\* temporary (a removal that itself fails apart), the source file of
\* CompareBackups also when obtaining the target file fails.
C18_TempDeletedIffTemp ==
    [][\A i \in DOMAIN ret'.results :
         LET e == ret'.results[i]
         IN  (~e.err /\ ret'.rm # "err") => (e.path \notin files' <=> e.isTemp)]_vars
\* The sub-dumps of a call that did not fail: the tool was there, the dump
\* exited with zero, the file was stat-ed and the record was saved.
Succeeded(subs) == {i \in 1..Len(subs) : subs[i].cmd = "ok" /\ subs[i].insert = "ok"}

\* C19: a multi-database CreateBackup returns an error iff no sub-dump ended
\* with a saved record, and otherwise the record of the first successful
\* database in list order; the new records are those of the successful
\* sub-dumps, each completed; a failed sub-dump leaves no record and the
\* remaining sub-dumps still run.
C19_MultiBackupResult ==
    [][(/\ ret'.op = "CreateBackup"
        /\ ~ret'.scheduled
        /\ ret'.conn \in DOMAIN connections
        /\ Len(connections[ret'.conn].selected) > 0)
       => LET subs == ret'.subs
              ok == Succeeded(subs)
              new == DOMAIN backups' \ DOMAIN backups
          IN  /\ ret'.err <=> ok = {}
              /\ ok # {} => /\ ret'.id \in new
                            /\ \E i \in ok : /\ subs[i].id = ret'.id
                                             /\ \A j \in ok : i <= j
                                             /\ backups'[ret'.id].path = subs[i].path
              /\ DOMAIN backups \subseteq DOMAIN backups'
              /\ Cardinality(new) = Cardinality(ok)
              /\ new = {subs[i].id : i \in ok}
              /\ \A id \in new : backups'[id].status = "completed"
              /\ subs # << >> => Len(subs) = Len(connections[ret'.conn].selected)]_vars

\* The first database failed, the second was dumped, saved and returned.
C19_Witness ==
    /\ ret.op = "CreateBackup"
    /\ ~ret.scheduled
    /\ Len(ret.subs) = 2
    /\ ret.subs[1].cmd = "dump_err"
    /\ ret.subs[2].cmd = "ok"
    /\ ~ret.err
    /\ ret.id = ret.subs[2].id
    /\ ret.id \in DOMAIN backups
    /\ ret.subs[1].id \notin DOMAIN backups

\* C20: when the dump command of a single-database CreateBackup exits with
\* non-zero, the call returns an error and a record of the attempt is in the
\* record store with status in_progress.
C20_FailedDumpLeavesInProgress ==
    (/\ ret.op = "CreateBackup"
     /\ ~ret.scheduled
     /\ Len(ret.subs) = 1
     /\ Len(connections[ret.conn].selected) = 0
     /\ ret.subs[1].cmd = "dump_err")
    => /\ ret.err
       /\ ret.subs[1].id \in DOMAIN backups
       /\ backups[ret.subs[1].id].status = "in_progress"
\* C21: a record has a schedule_id iff a scheduled firing produced it: when a
\* firing has stamped the backup it was returned, every record its CreateBackup
\* inserted carries the schedule's id; the records of an on-demand CreateBackup
\* have none; and a record gets a schedule_id only from the firing that
\* inserted it.
C21_ScheduleIdIffScheduled ==
    [][/\ \A slot \in DOMAIN firings :
            LET f == firings[slot]
            IN  (/\ f.pc = "stamp"
                 /\ firings'[slot] # f
                 /\ f.bid \in DOMAIN backups'
                 /\ backups'[f.bid].schedule_id = f.schedule.id)
                => \A id \in f.records \cap DOMAIN backups' :
                      backups'[id].schedule_id = f.schedule.id
       /\ ret'.op = "CreateBackup"
            => \A id \in DOMAIN backups' \ DOMAIN backups :
                  backups'[id].schedule_id = NoSchedule
       /\ \A id \in DOMAIN backups' :
            (/\ backups'[id].schedule_id # NoSchedule
             /\ id \in DOMAIN backups => backups[id].schedule_id = NoSchedule)
            => \E slot \in DOMAIN firings :
                  /\ firings[slot].pc = "stamp"
                  /\ id \in firings[slot].records
                  /\ backups'[id].schedule_id = firings[slot].schedule.id]_vars

\* A rename call in which no step failed.
RenameSucceeded(r) ==
    /\ r.op = "RenameS3FolderForConnection"
    /\ ~r.err
    /\ \A it \in r.items : it.moved /\ it.updated

\* C22: RenameS3FolderForConnection(c, old, new) called twice in a row leaves
\* the same object keys, in the bucket and in the records, as calling it once,
\* for all names that differ once sanitized (all steps of both calls
\* succeeding).
C22_RenameTwiceIsRenameOnce ==
    [][(/\ RenameSucceeded(ret)
        /\ RenameSucceeded(ret')
        /\ ret'.conn = ret.conn
        /\ ret'.oldName = ret.oldName
        /\ ret'.newName = ret.newName
        /\ SanitizeConnectionName(ret.oldName) # SanitizeConnectionName(ret.newName))
       => /\ objects' = objects
          /\ \A id \in DOMAIN backups :
                backups'[id].s3_object_key = backups[id].s3_object_key]_vars

\* C23: after a rename in which every storage and record step succeeds, each
\* backup of the connection whose key was [path_prefix/]sanitize(old)/<file>
\* has the record key [path_prefix/]sanitize(new)/<file>, an object is at that
\* key and none at the old key, whatever the path prefix.
C23_RenamedUnderPrefix ==
    [][(/\ RenameSucceeded(ret')
        /\ ret'.looped)
       => \A id \in GetBackupsByConnectionID(backups, ret'.conn) :
             LET key == backups[id].s3_object_key
                 head == objectKeyString(settings.S3PathPrefix, << >>,
                                         SanitizeConnectionName(ret'.oldName))
                 file == SubSeq(key, Len(head) + 1, Len(key))
                 newKey == objectKeyString(settings.S3PathPrefix, file,
                                           SanitizeConnectionName(ret'.newName))
             IN  (/\ Len(key) > Len(head)
                  /\ SubSeq(key, 1, Len(head)) = head
                  /\ key \in objects)
                 => /\ backups'[id].s3_object_key = newKey
                    /\ newKey \in objects'
                    /\ key \notin objects']_vars

\* C24: a delete request deletes the connection record and an update request
\* persists the updated connection whatever the outcome of the S3 cleanup or
\* rename attached to it: the request fails iff one of its own steps does.
C24_S3NeverFailsRequest ==
    [][ret'.op \in {"DeleteConnection", "UpdateConnection"}
       => /\ ret'.failed <=> ret'.own # "ok"
          /\ (ret'.own = "ok" /\ ret'.op = "DeleteConnection")
                => ret'.conn \notin DOMAIN connections'
          /\ (ret'.own = "ok" /\ ret'.op = "UpdateConnection")
                => connections'[ret'.conn].name = ret'.name]_vars

\* A delete whose S3 cleanup failed removed the connection and succeeded.
C24_Witness ==
    /\ ret.op = "DeleteConnection"
    /\ ret.cleanupS3
    /\ ret.s3err
    /\ ~ret.failed
    /\ ret.conn \notin DOMAIN connections

\* The keys of the backups of a connection.
KeysOf(table, connectionID) ==
    {table[id].s3_object_key : id \in GetBackupsByConnectionID(table, connectionID)}
        \ {NoKey}

\* C25: on connection deletion no S3 object is deleted unless the request asks
\* for it; when asked and S3 is configured, a delete is attempted for the key of
\* every backup of the connection, past individual failures, with the
\* connection record still there.
C25_CleanupIffAsked ==
    [][ret'.op = "DeleteConnection"
       => /\ ~ret'.cleanupS3 => objects' = objects
          /\ (/\ ret'.cleanupS3
              /\ S3Configured(settings)
              /\ ret'.conn \in DOMAIN connections)
             => /\ {it.key : it \in ret'.items} = KeysOf(backups, ret'.conn)
                /\ objects' = objects \ {it.key : it \in {i \in ret'.items : i.o = "ok"}}]_vars

\* C25 with the steps before the loop: when asked, S3 is configured and the
\* backups, the connection and the settings were read, the secret decrypted and
\* the client created, a delete is attempted for every key, past individual
\* failures; when not asked, or when the cleanup returns an error, no object is
\* deleted.
C25_CleanupIffAskedAndReady ==
    [][ret'.op = "DeleteConnection"
       => /\ (~ret'.cleanupS3 \/ ret'.s3err) => objects' = objects
          /\ (/\ ret'.cleanupS3
              /\ S3Configured(settings)
              /\ ret'.conn \in DOMAIN connections
              /\ ret'.pre = "ok")
             => /\ {it.key : it \in ret'.items} = KeysOf(backups, ret'.conn)
                /\ objects' = objects \ {it.key : it \in {i \in ret'.items : i.o = "ok"}}]_vars

\* A cleanup went on after a delete that failed, and the connection is gone.
C25_Witness ==
    /\ ret.op = "DeleteConnection"
    /\ ret.cleanupS3
    /\ \E i \in ret.items : i.o = "err" /\ i.key \in objects
    /\ \E i \in ret.items : i.o = "ok" /\ i.key \notin objects
    /\ ret.conn \notin DOMAIN connections

\* C26: RestoreBackup returns an error, and runs no restore command, whenever
\* the engine of the target connection differs from the engine of the
\* connection that produced the backup.
C26_EngineMismatchRejected ==
    [][(/\ ret'.op = "RestoreBackup"
        /\ backups[ret'.results[1].id].connection_id \in DOMAIN connections
        /\ connections[backups[ret'.results[1].id].connection_id].type
              # connections[ret'.conn].type)
       => /\ ret'.exit # "ok"
          /\ ~ret'.run.executed]_vars

\* The lines of an output that contain 'ERROR:' and none of 'WARNING:',
\* 'NOTICE:', 'must be member of role', 'no privileges'.
CriticalLines(output) ==
    {i \in 1..Len(output) :
        /\ "ERROR:" \in output[i]
        /\ output[i] \cap {"WARNING:", "NOTICE:", "must be member of role",
                           "no privileges"} = {}}

\* C27: the PostgreSQL restore validator reports the target-not-empty error iff
\* some critical line contains 'already exists', otherwise the restore-failed
\* error with the count of critical lines iff there is a critical line,
\* otherwise success.
C27_PostgresValidator ==
    ret.op = "validatePostgreSQLRestore"
    => LET critical == CriticalLines(ret.output)
           exists == \E i \in critical : "already exists" \in ret.output[i]
       IN  /\ ret.result.err = "target_not_empty" <=> exists
           /\ ret.result.err = "restore_failed" <=> (critical # {} /\ ~exists)
           /\ ret.result.err = "restore_failed" => ret.result.n = Cardinality(critical)
           /\ ret.result.err = "none" <=> critical = {}

\* Of two lines with 'ERROR:', one is set aside as a privilege problem and the
\* other is counted.
C27_Witness ==
    /\ ret.op = "validatePostgreSQLRestore"
    /\ Len(ret.output) = 2
    /\ \A i \in 1..2 : "ERROR:" \in ret.output[i]
    /\ "no privileges" \in ret.output[1]
    /\ ret.result = [err |-> "restore_failed", n |-> 1]

\* C28: for every restorable engine, a restore whose tool exits non-zero with
\* no output line containing a non-critical pattern returns an error, and a
\* restore returns OK only when the tool exited zero or no line it printed is
\* critical.
C28_NonZeroExitIsAnError ==
    (/\ ret.op = "RestoreBackup"
     /\ ret.run.executed
     /\ ret.run.engine \in {"postgresql", "mysql", "mariadb", "mongodb"})
    => /\ (/\ ret.run.cmdErr
           /\ \A i \in 1..Len(ret.run.output) :
                 ret.run.output[i] \cap {"WARNING:", "NOTICE:", "must be member of role",
                                         "no privileges"} = {})
          => ret.exit # "ok"
       /\ ret.exit = "ok" => (~ret.run.cmdErr \/ CriticalLines(ret.run.output) = {})

\* The tunnels of the call that returned last.
TunnelsOfCall == IF ret.op = "CreateBackup" THEN ret.tunnels ELSE ret.run.tunnels

\* Whether the call that returned last reached its dump or restore command.
ReachedCommand ==
    IF ret.op = "CreateBackup" THEN ret.subs # << >> ELSE ret.exit \notin {"ensure_err", "tools_err", "tunnel_err"}

C30_ReturnedSecretsBlank ==
    (/\ ret.op \in {"GetConnection", "SaveConnection", "UpdateConnection"}
     /\ ret.body # NoBody)
    => /\ ret.body.password = ""
       /\ ret.body.ssh_password = ""
       /\ ret.body.ssh_private_key = ""

\* C31: every UserSettings returned by GetUserSettings or UpdateUserSettings
\* has smtp_password and s3_secret_key absent, whatever is stored and whatever
\* the environment sets; GetUserSettingsInternal returns them.
C31_PublicSettingsBlank ==
    /\ (ret.op \in {"GetUserSettings", "UpdateUserSettings"} /\ ~ret.failed)
       => /\ ret.body.SMTPPassword = << >>
          /\ ret.body.S3SecretKey = << >>
    /\ (ret.op = "GetUserSettingsInternal" /\ ~ret.failed)
       => /\ ret.body.S3SecretKey = settings.S3SecretKey
          /\ ret.body.SMTPPassword = IF ret.env # "" THEN << "plain", ret.env >>
                                     ELSE settings.SMTPPassword

\* A public read while both secrets are stored and the environment sets the
\* SMTP password.
C31_Witness ==
    /\ ret.op = "GetUserSettings"
    /\ ~ret.failed
    /\ ret.env # ""
    /\ settings.SMTPPassword # << >>
    /\ settings.S3SecretKey # << >>
    /\ ret.body.SMTPPassword = << >>

\* C32: a connection created through SaveConnection has
\* s3_cleanup_on_retention = true in its stored record, GetConnection reads
\* the stored value back, and an UpdateConnection that does not supply the
\* flag leaves the stored value unchanged.
C32_CleanupFlagDefaultsTrue ==
    [][/\ (ret'.op = "SaveConnection" /\ ~ret'.failed)
          => connections'[ret'.conn].s3cleanup = TRUE
       /\ (ret'.op = "GetConnection" /\ ~ret'.failed)
          => ret'.body.s3cleanup = connections[ret'.conn].s3cleanup
       /\ (ret'.op = "UpdateConnection" /\ ~ret'.failed /\ ret'.flag = "nil")
          => connections'[ret'.conn].s3cleanup = connections[ret'.conn].s3cleanup]_vars

\* C33: a firing that persists its schedule changes only next_run_time and
\* last_backup_time of the record: enabled, cron_expr and retention_days stay
\* as stored at the moment of the write, so a disable or an update that
\* completed while the firing ran is not undone.
C33_FiringKeepsStoredFields ==
    [][(ret'.op = "FiringUpdate" /\ ret'.saved)
       => \A id \in DOMAIN schedules :
             /\ schedules'[id].enabled = schedules[id].enabled
             /\ schedules'[id].cron_schedule = schedules[id].cron_schedule
             /\ schedules'[id].retention_days = schedules[id].retention_days]_vars

\* C34: when no schedule call is in progress, a job is registered in the cron
\* engine for a schedule only if the persisted enabled flag of the schedule is
\* true.
C34_JobsOnlyForEnabled ==
    NoCallInFlight
    => \A e \in DOMAIN cronJobs :
          /\ cronJobs[e].schedule.id \in DOMAIN schedules
          /\ schedules[cronJobs[e].schedule.id].enabled

\* C35: a successful delete of a connection leaves no job of its schedules in
\* the cron engine and no handle of them in the handle map, and no firing
\* starts for a schedule whose connection is gone.
C35_NoFiringAfterDelete ==
    [][/\ (ret'.op = "DeleteConnection" /\ ~ret'.failed)
          => /\ \A e \in DOMAIN cronJobs' :
                   cronJobs'[e].schedule.connection_id # ret'.conn
             /\ \A sid \in DOMAIN cronEntries' :
                   sid \in DOMAIN schedules' => schedules'[sid].connection_id # ret'.conn
       /\ \A slot \in DOMAIN firings :
             (firings[slot].pc = "idle" /\ firings'[slot].pc = "backup")
                => firings'[slot].schedule.connection_id \in DOMAIN connections]_vars

\* Whether n is schedule.Next(t) of the expression for some time t <= now: the
\* candidates are the times of the one period before n.
IsNextOf(expr, n, now) ==
    /\ n # NoTime
    /\ \E t \in (n - Period(expr))..now : NextTime(expr, t) = n

\* C36: when UpdateBackupSchedule returns success, the next_run_time of the row
\* it wrote is the next activation of the new expression after some time not
\* later than now.
C36_NextRunFollowsNewCron ==
    [][(/\ ret'.op = "UpdateBackupSchedule"
        /\ ret'.err = "none"
        /\ ret'.sid \in DOMAIN schedules')
       => IsNextOf(schedules'[ret'.sid].cron_schedule,
                   schedules'[ret'.sid].next_run_time, clock')]_vars

\* C37: after RenameS3FolderForConnection returns, every backup of the
\* connection whose object was at its s3_object_key before the call has an
\* object at the s3_object_key its record holds now, whichever step of the
\* rename failed.
C37_KeysResolveAfterRename ==
    [][ret'.op = "RenameS3FolderForConnection"
       => \A id \in GetBackupsByConnectionID(backups, ret'.conn) :
             (/\ backups[id].s3_object_key # NoKey
              /\ backups[id].s3_object_key \in objects)
                => /\ backups'[id].s3_object_key # NoKey
                   /\ backups'[id].s3_object_key \in objects']_vars

\* C38: when CreateBackup returns, every object it uploaded is the
\* s3_object_key of a record it saved; a dump that ended without a saved record
\* (the call's error, or a failed sub-dump) uploaded nothing and did not purge
\* its local file.
C38_UploadsAreRecorded ==
    \A b \in ReturnedDumps :
        /\ b.acked => /\ b.saved
                      /\ b.id \in DOMAIN backups
                      /\ backups[b.id].s3_object_key = b.key
        /\ ~b.saved => ~b.acked /\ ~b.removed

\* C39: a temp file a request obtained with is_temp = true is present and has
\* the content that request downloaded for as long as the request has not
\* returned, whatever other restore, download and compare requests do meanwhile.
C39_TempFilesStayIntact ==
    \A s \in DOMAIN calls :
        calls[s].pc \in {"ensure", "use"}
        => \A i \in DOMAIN calls[s].got :
              calls[s].got[i].isTemp
              => /\ calls[s].got[i].path \in files
                 /\ calls[s].got[i].intact

\* Whether backup id belongs to a connection of another user than userID.
Foreign(userID, id) == UserOf(backups[id].connection_id) # userID

\* C40: GetBackup, DownloadBackup, CompareBackups and RestoreBackup asked by a
\* user for a backup of another user's connection return an error and hand out
\* neither the record nor the file; the list of backups holds the user's own
\* backups only.
C40_OnlyOwnBackups ==
    /\ (ret.op = "GetBackup" /\ ret.id \in DOMAIN backups /\ Foreign(ret.user, ret.id))
          => ret.err /\ ret.body = << >>
    /\ ret.op \in ReadOps
          => \A i \in DOMAIN ret.results :
                Foreign(ret.user, ret.results[i].id)
                   => ret.results[i].err /\ ret.exit # "ok"
    /\ ret.op = "ListBackups" => \A id \in ret.ids : ~Foreign(ret.user, id)
====
